---- MODULE Spec2Model ----
(***************************************************************************)
(* Restaurant cost calculator: the entity stores and their derived views.  *)
(*                                                                         *)
(* The repository holds two application variants, each with its own        *)
(* `storage` singleton:                                                    *)
(*   "recipe" : MemStorage of server/storage.ts (ingredients, recipes)     *)
(*   "mem"    : MemStorage of the point-of-sale server (products, sales,   *)
(*              cost history), in-memory maps                              *)
(*   "db"     : DatabaseStorage of the point-of-sale server, the same      *)
(*              contract over relational tables                            *)
(* A run of the program uses one of them; `variant` is fixed at start.     *)
(*                                                                         *)
(* Numbers.  A JavaScript number n is held as the integer n * 1000         *)
(* (arithmetic is exact decimal arithmetic; binary floating point          *)
(* representation error is not modelled).  A decimal string is a record    *)
(* [m, dp]: its numeric value (times 1000) and the number of fractional    *)
(* digits it is written with, so "1.5" and "1.50" are different strings    *)
(* with the same value.                                                    *)
(*                                                                         *)
(* Time.  Date.now() and every createdAt are counted in ticks of an hour   *)
(* since the epoch; the server's time zone is an offset from UTC and, in   *)
(* the specification that needs it, a daylight-saving switch of one hour.  *)
(* A specification that makes no time-dependent read keeps the clock       *)
(* where it started.                                                       *)
(***************************************************************************)
EXTENDS Integers, Sequences, FiniteSets, TLC

VARIABLES
    variant,               \* which storage implementation this run uses
    ingredients,           \* recipe store: Map<number, Ingredient>
    recipes,               \* recipe store: Map<number, Recipe>
    currentIngredientId,   \* recipe store: next ingredient id
    currentRecipeId,       \* recipe store: next recipe id
    products,              \* POS store: products map / table
    sales,                 \* POS store: sales map / table
    costHistory,           \* POS store: cost history rows, in append order
    currentProductId,      \* POS store: next product id (counter / serial)
    currentSaleId,         \* POS store: next sale id
    currentHistoryId,      \* POS store: next cost-history id
    clock,                 \* Date.now(), in ticks of an hour
    tz,                    \* the server's offset east of UTC, in ticks
    dst,                   \* the server's zone: when its offset changes, by how much
    inflight,              \* the requests that arrived, each with its position
    catalogue,             \* POS page: the products as last fetched
    cart,                  \* POS page: the lines of the cart
    submitted,             \* POS page: the sale request of the checkout
    twin,                  \* a second server given the same calls: its store
    last                   \* the last completed call: [op, id, arg, ret, out, pre]

recipeVars == <<ingredients, recipes, currentIngredientId, currentRecipeId>>
posVars == <<products, sales, costHistory, currentProductId, currentSaleId,
             currentHistoryId>>
\* what surrounds the store and no storage call run on its own touches: the
\* clock, the time zone, the requests in flight, the page of the client and
\* the second server
envVars == <<clock, tz, dst, inflight, catalogue, cart, submitted, twin>>
vars == <<variant, recipeVars, posVars, envVars, last>>

\* the store as it is now
Snapshot ==
    [ingredients |-> ingredients, recipes |-> recipes,
     currentIngredientId |-> currentIngredientId, currentRecipeId |-> currentRecipeId,
     products |-> products, sales |-> sales, costHistory |-> costHistory,
     currentProductId |-> currentProductId, currentSaleId |-> currentSaleId,
     currentHistoryId |-> currentHistoryId]

\* `last` records the last completed call: its name, the id it was given or
\* assigned, its body, the kind of result ("record", "undefined", "true",
\* "false", "throws"), the value a read returned, and the store as it was
\* when the call started
CallOut(op, id, arg, ret, out) ==
    [op |-> op, id |-> id, arg |-> arg, ret |-> ret, out |-> out, pre |-> Snapshot]

Call(op, id, arg, ret) == CallOut(op, id, arg, ret, [none |-> TRUE])

-----------------------------------------------------------------------------
(* Bounds of the model *)

MaxIngredientId == 2
MaxRecipeId == 1
MaxNewProducts == 1
MaxNewSales == 1
MaxHistory == 2
MaxReportSales == 2
MaxRequests == 3
MaxTwinCalls == 3
MaxQuantity == 2

-----------------------------------------------------------------------------
(* Time *)

\* 24 * 60 * 60 * 1000 milliseconds, in ticks
TicksPerDay == 24
HalfDay == TicksPerDay \div 2
Hour == TicksPerDay \div 24

\* a zone whose offset never changes
NoDst == [at |-> 0, shift |-> 0]

\* the clock when the server starts: day 100, midnight UTC
ClockStart == 100 * TicksPerDay

-----------------------------------------------------------------------------
(* Numbers and decimal strings *)

Dec(m, dp) == [m |-> m, dp |-> dp]

\* parseFloat of a decimal string: its numeric value
ParseFloat(s) == s.m

\* a * b for two numbers held times 1000
Mul(a, b) == (a * b) \div 1000

\* a / b as an exact fraction (b = 0 gives Infinity or NaN: den = 0)
Div(a, b) == [num |-> a, den |-> b]

\* toFixed(2) as it would be if it cut the digits off instead of rounding
ToFixed2Trunc(n) == Dec((n \div 10) * 10, 2)

\* Number.prototype.toFixed(2), n >= 0: nearest hundredth, ties upward,
\* always written with two fractional digits
ToFixed2(n) == Dec(((n + 5) \div 10) * 10, 2)

\* JavaScript truthiness of a number
Truthy(n) == n # 0

Merge(existing, update) ==
    [f \in DOMAIN existing \cup DOMAIN update |->
        IF f \in DOMAIN update THEN update[f] ELSE existing[f]]

NoArg == [none |-> TRUE]
Absent == [some |-> FALSE]
Some(v) == [some |-> TRUE, val |-> v]

\* the POS page has sent no sale request and its product list is current
NoRequest == [status |-> "idle", stale |-> FALSE, data |-> [none |-> TRUE]]

\* no second server runs beside this one
NoTwin == [phase |-> "off"]
BoolStr(b) == IF b THEN "true" ELSE "false"

\* the patch with no field at all
EmptyPatch == [f \in {} |-> 0]

-----------------------------------------------------------------------------
(* Recipe store: inputs *)

CostStrings == {Dec(1010, 2), Dec(250, 2)}
\* servings a recipe is created with, and servings a patch sets
InsertServings == {1}
PatchServings == {2}

IngredientIds == 1 .. (MaxIngredientId + 1)
RecipeIds == 1 .. (MaxRecipeId + 1)

Item(ingredientId, quantity) == [ingredientId |-> ingredientId, quantity |-> quantity]

\* ingredient lists of a recipe body: none, or three lines over two
\* ingredients, one of them used twice
RecipeIngredientLists ==
    {<<>>, <<Item(1, 700), Item(2, 1500), Item(2, 500)>>}

InsertIngredients == [costPerUnit : CostStrings]
IngredientPatches == [costPerUnit : CostStrings]

InsertRecipes == [servings : InsertServings, ingredients : RecipeIngredientLists]
RecipePatches ==
    {EmptyPatch} \cup [servings : PatchServings]
        \cup [ingredients : RecipeIngredientLists]

-----------------------------------------------------------------------------
(* Recipe store: MemStorage of server/storage.ts *)

\* the cost loop of createRecipe / updateRecipe, from item i on, with the
\* running total `total`: items whose ingredient is not in the map add nothing
RECURSIVE CostLoop(_, _, _)
CostLoop(items, i, total) ==
    IF i > Len(items) THEN total
    ELSE LET ri == items[i]
         IN IF ri.ingredientId \in DOMAIN ingredients
            THEN CostLoop(items, i + 1,
                     total + Mul(ParseFloat(ingredients[ri.ingredientId].costPerUnit),
                                 ri.quantity))
            ELSE CostLoop(items, i + 1, total)

\* createIngredient as it would be if the id were the map's size plus one
createIngredientReuse(ins) ==
    /\ variant = "recipe"
    /\ currentIngredientId <= MaxIngredientId
    /\ LET id == Cardinality(DOMAIN ingredients) + 1
           ingredient == [id |-> id, costPerUnit |-> ins.costPerUnit]
       IN /\ currentIngredientId' = currentIngredientId + 1
          /\ ingredients' = [k \in DOMAIN ingredients \cup {id} |->
                                IF k = id THEN ingredient ELSE ingredients[k]]
          /\ last' = Call("createIngredient", id, ins, "record")
    /\ UNCHANGED <<variant, envVars, recipes, currentRecipeId, posVars>>

createIngredient(ins) ==
    /\ variant = "recipe"
    /\ currentIngredientId <= MaxIngredientId
    /\ LET id == currentIngredientId
           ingredient == [id |-> id, costPerUnit |-> ins.costPerUnit]
       IN /\ currentIngredientId' = currentIngredientId + 1
          /\ ingredients' = [k \in DOMAIN ingredients \cup {id} |->
                                IF k = id THEN ingredient ELSE ingredients[k]]
          /\ last' = Call("createIngredient", id, ins, "record")
    /\ UNCHANGED <<variant, envVars, recipes, currentRecipeId, posVars>>

\* updateIngredient as it would be if an unknown id were stored (an upsert)
updateIngredientUpsert(id, update) ==
    /\ variant = "recipe"
    /\ ingredients' = [k \in DOMAIN ingredients \cup {id} |->
                          IF k # id THEN ingredients[k]
                          ELSE IF id \in DOMAIN ingredients
                               THEN Merge(ingredients[id], update)
                               ELSE Merge([id |-> id], update)]
    /\ last' = Call("updateIngredient", id, update,
                    IF id \in DOMAIN ingredients THEN "record" ELSE "undefined")
    /\ UNCHANGED <<variant, envVars, currentIngredientId, recipes, currentRecipeId, posVars>>

updateIngredient(id, update) ==
    /\ variant = "recipe"
    /\ IF id \notin DOMAIN ingredients
       THEN /\ last' = Call("updateIngredient", id, update, "undefined")
            /\ UNCHANGED ingredients
       ELSE LET existing == ingredients[id]
                updated == [Merge(existing, update) EXCEPT
                              !.costPerUnit =
                                  IF "costPerUnit" \in DOMAIN update
                                  THEN update.costPerUnit
                                  ELSE existing.costPerUnit]
            IN /\ ingredients' = [ingredients EXCEPT ![id] = updated]
               /\ last' = Call("updateIngredient", id, update, "record")
    /\ UNCHANGED <<variant, envVars, currentIngredientId, recipes, currentRecipeId, posVars>>

\* deleteIngredient as it would be if it recomputed the total of every
\* recipe from the ingredients that remain
deleteIngredientCascade(id) ==
    /\ variant = "recipe"
    /\ ingredients' = [k \in DOMAIN ingredients \ {id} |-> ingredients[k]]
    /\ recipes' =
          [r \in DOMAIN recipes |->
              [recipes[r] EXCEPT !.totalCost =
                  ToFixed2(CostLoop(
                      SelectSeq(recipes[r].ingredients,
                                LAMBDA ri : ri.ingredientId # id), 1, 0))]]
    /\ last' = Call("deleteIngredient", id, NoArg, BoolStr(id \in DOMAIN ingredients))
    /\ UNCHANGED <<variant, envVars, currentIngredientId, currentRecipeId, posVars>>

deleteIngredient(id) ==
    /\ variant = "recipe"
    /\ ingredients' = [k \in DOMAIN ingredients \ {id} |-> ingredients[k]]
    /\ last' = Call("deleteIngredient", id, NoArg, BoolStr(id \in DOMAIN ingredients))
    /\ UNCHANGED <<variant, envVars, currentIngredientId, recipes, currentRecipeId, posVars>>

\* the ingredientDetails loop of getRecipeWithDetails, from item i on
RECURSIVE DetailsLoop(_, _, _)
DetailsLoop(items, i, details) ==
    IF i > Len(items) THEN details
    ELSE LET ri == items[i]
         IN IF ri.ingredientId \in DOMAIN ingredients
            THEN LET ingredient == ingredients[ri.ingredientId]
                     cost == Mul(ParseFloat(ingredient.costPerUnit), ri.quantity)
                 IN DetailsLoop(items, i + 1,
                        Append(details, [ingredient |-> ingredient,
                                         quantity |-> ri.quantity,
                                         cost |-> cost]))
            ELSE DetailsLoop(items, i + 1, details)

\* getRecipeWithDetails as it would be if costPerServing were computed from
\* the ingredients that exist now instead of the stored total
RecipeWithDetailsLive(id) ==
    IF id \notin DOMAIN recipes THEN Absent
    ELSE LET recipe == recipes[id]
             ingredientDetails == DetailsLoop(recipe.ingredients, 1, <<>>)
             totalCost == ParseFloat(ToFixed2(CostLoop(recipe.ingredients, 1, 0)))
             costPerServing == Div(totalCost, recipe.servings)
         IN Some(Merge(recipe, [ingredientDetails |-> ingredientDetails,
                                costPerServing |-> costPerServing]))

\* the value getRecipeWithDetails(id) returns in the current state
RecipeWithDetails(id) ==
    IF id \notin DOMAIN recipes THEN Absent
    ELSE LET recipe == recipes[id]
             ingredientDetails == DetailsLoop(recipe.ingredients, 1, <<>>)
             totalCost == ParseFloat(recipe.totalCost)
             costPerServing == Div(totalCost, recipe.servings)
         IN Some(Merge(recipe, [ingredientDetails |-> ingredientDetails,
                                costPerServing |-> costPerServing]))

getRecipeWithDetails(id) ==
    /\ variant = "recipe"
    /\ last' = CallOut("getRecipeWithDetails", id, NoArg,
                       IF id \in DOMAIN recipes THEN "record" ELSE "undefined",
                       RecipeWithDetails(id))
    /\ UNCHANGED <<variant, envVars, recipeVars, posVars>>

createRecipe(ins) ==
    /\ variant = "recipe"
    /\ currentRecipeId <= MaxRecipeId
    /\ LET id == currentRecipeId
           totalCost == CostLoop(ins.ingredients, 1, 0)
           recipe == [id |-> id, servings |-> ins.servings,
                      totalCost |-> ToFixed2(totalCost),
                      ingredients |-> ins.ingredients]
       IN /\ currentRecipeId' = currentRecipeId + 1
          /\ recipes' = [k \in DOMAIN recipes \cup {id} |->
                            IF k = id THEN recipe ELSE recipes[k]]
          /\ last' = Call("createRecipe", id, ins, "record")
    /\ UNCHANGED <<variant, envVars, ingredients, currentIngredientId, posVars>>

\* updateRecipe's total as it would be if every update recomputed it from
\* the ingredients the recipe ends up with
UpdatedTotalCostLive(existing, update) ==
    IF "ingredients" \in DOMAIN update
    THEN CostLoop(update.ingredients, 1, 0)
    ELSE CostLoop(existing.ingredients, 1, 0)

\* the total updateRecipe stores: recomputed if the patch has ingredients,
\* else the stored text parsed
UpdatedTotalCost(existing, update) ==
    IF "ingredients" \in DOMAIN update
    THEN CostLoop(update.ingredients, 1, 0)
    ELSE ParseFloat(existing.totalCost)

updateRecipe(id, update) ==
    /\ variant = "recipe"
    /\ IF id \notin DOMAIN recipes
       THEN /\ last' = Call("updateRecipe", id, update, "undefined")
            /\ UNCHANGED recipes
       ELSE LET existing == recipes[id]
                totalCost == UpdatedTotalCost(existing, update)
                updated == [Merge(existing, update) EXCEPT
                              !.totalCost = ToFixed2(totalCost),
                              !.ingredients =
                                  IF "ingredients" \in DOMAIN update
                                  THEN update.ingredients
                                  ELSE existing.ingredients]
            IN /\ recipes' = [recipes EXCEPT ![id] = updated]
               /\ last' = Call("updateRecipe", id, update, "record")
    /\ UNCHANGED <<variant, envVars, ingredients, currentIngredientId, currentRecipeId, posVars>>

\* deleteRecipe as it would be if it reported success without looking
deleteRecipeAlwaysTrue(id) ==
    /\ variant = "recipe"
    /\ recipes' = [k \in DOMAIN recipes \ {id} |-> recipes[k]]
    /\ last' = Call("deleteRecipe", id, NoArg, "true")
    /\ UNCHANGED <<variant, envVars, ingredients, currentIngredientId, currentRecipeId, posVars>>

deleteRecipe(id) ==
    /\ variant = "recipe"
    /\ recipes' = [k \in DOMAIN recipes \ {id} |-> recipes[k]]
    /\ last' = Call("deleteRecipe", id, NoArg, BoolStr(id \in DOMAIN recipes))
    /\ UNCHANGED <<variant, envVars, ingredients, currentIngredientId, currentRecipeId, posVars>>

-----------------------------------------------------------------------------
(* Point of sale: numbers as text *)

\* Number.prototype.toString of a number with at most three decimals: the
\* shortest decimal text, no trailing zeros
NumToString(n) ==
    IF n % 1000 = 0 THEN Dec(n, 0)
    ELSE IF n % 100 = 0 THEN Dec(n, 1)
    ELSE IF n % 10 = 0 THEN Dec(n, 2)
    ELSE Dec(n, 3)

\* a decimal(10, 2) column: the value rounded to two decimals, and read back
\* written with exactly two fractional digits
DbDecimal(s) == Dec(((s.m + 5) \div 10) * 10, 2)

-----------------------------------------------------------------------------
(* Point of sale: sample data and inputs *)

Product(id, category, price, cost, stock, minStock) ==
    [id |-> id, category |-> category, price |-> price, cost |-> cost,
     stock |-> stock, minStock |-> minStock]

SaleItem(productId, quantity, price) ==
    [productId |-> productId, quantity |-> quantity, price |-> price,
     total |-> price * quantity]

\* sampleProducts of MemStorage.initializeSampleData, after number.toString()
MemSampleProducts ==
    <<Product(1, "Beverages", NumToString(3500), NumToString(750), 50, 10),
      Product(2, "Beverages", NumToString(4250), NumToString(1200), 40, 8),
      Product(3, "Pastries", NumToString(2750), NumToString(1100), 25, 5),
      Product(4, "Food", NumToString(8500), NumToString(3250), 15, 3),
      Product(5, "Food", NumToString(6950), NumToString(2800), 20, 5)>>

\* sampleSales of MemStorage.initializeSampleData; age1 and age2 are how
\* long before the start the random createdAt of each lies
MemSampleSales(age1, age2) ==
    <<[id |-> 1, totalAmount |-> NumToString(12750), taxAmount |-> NumToString(1020),
       items |-> <<SaleItem(1, 2, 3500), SaleItem(3, 2, 2750)>>,
       createdAt |-> ClockStart - age1],
      [id |-> 2, totalAmount |-> NumToString(15200), taxAmount |-> NumToString(1220),
       items |-> <<SaleItem(4, 1, 8500), SaleItem(2, 1, 4250)>>,
       createdAt |-> ClockStart - age2]>>

\* Math.random() * 7 days: outcomes of the random age of a sample sale
SampleSaleAges == {HalfDay, 13 * HalfDay}

\* sampleProducts of DatabaseStorage.initializeSampleData, as the table
\* returns them
DbSampleProducts ==
    <<Product(1, "Beverages", DbDecimal(Dec(3500, 2)), DbDecimal(Dec(750, 2)), 50, 10),
      Product(2, "Beverages", DbDecimal(Dec(4250, 2)), DbDecimal(Dec(1200, 2)), 40, 8),
      Product(3, "Pastries", DbDecimal(Dec(2750, 2)), DbDecimal(Dec(1100, 2)), 25, 5),
      Product(4, "Food", DbDecimal(Dec(8500, 2)), DbDecimal(Dec(3250, 2)), 15, 3),
      Product(5, "Food", DbDecimal(Dec(6950, 2)), DbDecimal(Dec(2800, 2)), 20, 5)>>

\* the first ids a run assigns, after the sample data
FirstProductId == Len(MemSampleProducts) + 1
FirstSaleId == IF variant = "mem" THEN Len(MemSampleSales(0, 0)) + 1 ELSE 1

CostValues == {750, 1200}
PriceValues == {4250}

\* ids the calls are made with: a sample product, the products this run
\* creates, and an id past them; the sales this run creates, and an id past
\* them
ProductIds == {2} \cup (FirstProductId .. (FirstProductId + MaxNewProducts))
SaleIds == FirstSaleId .. (FirstSaleId + MaxNewSales)

InsertProducts ==
    [category : {"Food"}, price : {3500}, cost : CostValues, stock : {1}, minStock : {5}]
ProductPatches == [cost : CostValues] \cup [price : PriceValues]

\* a sale over a sample product and a new product sold in two lines; a sale
\* over a new product and an id past the products
SaleItems1 ==
    <<SaleItem(2, 1, 4250), SaleItem(FirstProductId, 2, 3500),
      SaleItem(FirstProductId, 1, 3500)>>
SaleItems2 ==
    <<SaleItem(FirstProductId, 1, 3500),
      SaleItem(FirstProductId + MaxNewProducts, 1, 3500)>>
SaleItemLists == {SaleItems1, SaleItems2}

\* sale bodies, with and without the optional taxAmount
InsertSales ==
    {[totalAmount |-> 14750, taxAmount |-> 1180, items |-> SaleItems1],
     [totalAmount |-> 7000, items |-> SaleItems2]}
SalePatches == [items : SaleItemLists] \cup [taxAmount : {0}]

-----------------------------------------------------------------------------
(* Point of sale: MemStorage (in-memory maps) *)

\* Map.set(id, v)
MapSet(map, id, v) ==
    [k \in DOMAIN map \cup {id} |-> IF k = id THEN v ELSE map[k]]

\* Map.delete(id)
MapDelete(map, id) == [k \in DOMAIN map \ {id} |-> map[k]]

\* the row createCostHistory stores, given the next history id
MemCostHistoryRow(hid, ins) ==
    [id |-> hid, productId |-> ins.productId, oldCost |-> ins.oldCost,
     newCost |-> ins.newCost, reason |-> ins.reason]

Mem_createProduct(ins) ==
    LET id == currentProductId
        product == Product(id, ins.category, NumToString(ins.price),
                           NumToString(ins.cost), ins.stock, ins.minStock)
    IN /\ currentProductId' = currentProductId + 1
       /\ products' = MapSet(products, id, product)
       /\ last' = Call("createProduct", id, ins, "record")
       /\ UNCHANGED <<sales, costHistory, currentSaleId, currentHistoryId>>

\* the test of updateProduct as it would be if only a higher cost were
\* recorded
MemCostChangedRaised(existing, update) ==
    /\ "cost" \in DOMAIN update
    /\ Truthy(update.cost)
    /\ update.cost > ParseFloat(existing.cost)

\* whether updateProduct records a cost change: the new cost's text differs
\* from the stored text
MemCostChanged(existing, update) ==
    /\ "cost" \in DOMAIN update
    /\ Truthy(update.cost)
    /\ NumToString(update.cost) # existing.cost

Mem_updateProduct(id, update) ==
    IF id \notin DOMAIN products
    THEN /\ last' = Call("updateProduct", id, update, "undefined")
         /\ UNCHANGED posVars
    ELSE LET existing == products[id]
             updated == [Merge(existing, update) EXCEPT
                           !.price = IF "price" \in DOMAIN update /\ Truthy(update.price)
                                     THEN NumToString(update.price)
                                     ELSE existing.price,
                           !.cost = IF "cost" \in DOMAIN update /\ Truthy(update.cost)
                                    THEN NumToString(update.cost)
                                    ELSE existing.cost]
         IN /\ IF MemCostChanged(existing, update)
               THEN /\ costHistory' =
                          Append(costHistory,
                                 MemCostHistoryRow(currentHistoryId,
                                     [productId |-> id, oldCost |-> existing.cost,
                                      newCost |-> NumToString(update.cost),
                                      reason |-> "Manual update"]))
                    /\ currentHistoryId' = currentHistoryId + 1
               ELSE UNCHANGED <<costHistory, currentHistoryId>>
            /\ products' = MapSet(products, id, updated)
            /\ last' = Call("updateProduct", id, update, "record")
            /\ UNCHANGED <<sales, currentProductId, currentSaleId>>

Mem_deleteProduct(id) ==
    /\ products' = MapDelete(products, id)
    /\ last' = Call("deleteProduct", id, NoArg, BoolStr(id \in DOMAIN products))
    /\ UNCHANGED <<sales, costHistory, currentProductId, currentSaleId,
                   currentHistoryId>>

\* the stock loop as it would be if every line read the stock the call
\* started with: repeated lines of one product lose all but the last
RECURSIVE MemStockLoopStale(_, _, _)
MemStockLoopStale(items, i, ps) ==
    IF i > Len(items) THEN ps
    ELSE LET item == items[i]
         IN IF item.productId \in DOMAIN ps
            THEN MemStockLoopStale(items, i + 1,
                     [ps EXCEPT ![item.productId].stock =
                                    products[item.productId].stock - item.quantity])
            ELSE MemStockLoopStale(items, i + 1, ps)

\* the stock loop as it would be with a floor at zero
RECURSIVE MemStockLoopFloor(_, _, _)
MemStockLoopFloor(items, i, ps) ==
    IF i > Len(items) THEN ps
    ELSE LET item == items[i]
         IN IF item.productId \in DOMAIN ps
            THEN MemStockLoopFloor(items, i + 1,
                     [ps EXCEPT ![item.productId].stock =
                                    IF @ - item.quantity < 0 THEN 0
                                    ELSE @ - item.quantity])
            ELSE MemStockLoopFloor(items, i + 1, ps)

\* the stock loop of createSale, from item i on: every line reads the map
\* as the lines before it left it
RECURSIVE MemStockLoop(_, _, _)
MemStockLoop(items, i, ps) ==
    IF i > Len(items) THEN ps
    ELSE LET item == items[i]
         IN IF item.productId \in DOMAIN ps
            THEN MemStockLoop(items, i + 1,
                     [ps EXCEPT ![item.productId].stock = @ - item.quantity])
            ELSE MemStockLoop(items, i + 1, ps)

\* insertSale.taxAmount?.toString() || "0"
TaxAmountText(ins) ==
    IF "taxAmount" \in DOMAIN ins THEN NumToString(ins.taxAmount) ELSE Dec(0, 0)

\* the sale createSale stores under id at time `at`
MemSaleRecord(id, ins, at) ==
    [id |-> id, totalAmount |-> NumToString(ins.totalAmount),
     taxAmount |-> TaxAmountText(ins), items |-> ins.items, createdAt |-> at]

\* createSale as it would be if the incremented counter were not written
\* back: the next create reads the same id
Mem_createSaleSameId(ins) ==
    LET id == currentSaleId
        sale == MemSaleRecord(id, ins, clock)
    IN /\ products' = MemStockLoop(ins.items, 1, products)
       /\ sales' = MapSet(sales, id, sale)
       /\ last' = Call("createSale", id, ins, "record")
       /\ UNCHANGED <<costHistory, currentProductId, currentSaleId, currentHistoryId>>

Mem_createSale(ins) ==
    LET id == currentSaleId
        sale == MemSaleRecord(id, ins, clock)
    IN /\ currentSaleId' = currentSaleId + 1
       /\ products' = MemStockLoop(ins.items, 1, products)
       /\ sales' = MapSet(sales, id, sale)
       /\ last' = Call("createSale", id, ins, "record")
       /\ UNCHANGED <<costHistory, currentProductId, currentHistoryId>>

Mem_updateSale(id, update) ==
    IF id \notin DOMAIN sales
    THEN /\ last' = Call("updateSale", id, update, "undefined")
         /\ UNCHANGED posVars
    ELSE LET existing == sales[id]
             updated == [Merge(existing, update) EXCEPT
                           !.totalAmount =
                               IF "totalAmount" \in DOMAIN update
                                      /\ Truthy(update.totalAmount)
                               THEN NumToString(update.totalAmount)
                               ELSE existing.totalAmount,
                           !.taxAmount =
                               IF "taxAmount" \in DOMAIN update
                                      /\ Truthy(update.taxAmount)
                               THEN NumToString(update.taxAmount)
                               ELSE existing.taxAmount,
                           !.items = IF "items" \in DOMAIN update
                                     THEN update.items ELSE existing.items]
         IN /\ sales' = MapSet(sales, id, updated)
            /\ last' = Call("updateSale", id, update, "record")
            /\ UNCHANGED <<products, costHistory, currentProductId, currentSaleId,
                           currentHistoryId>>

\* a loop over a sale's items that gives each line's quantity back
RECURSIVE MemRestockLoop(_, _, _)
MemRestockLoop(items, i, ps) ==
    IF i > Len(items) THEN ps
    ELSE LET item == items[i]
         IN IF item.productId \in DOMAIN ps
            THEN MemRestockLoop(items, i + 1,
                     [ps EXCEPT ![item.productId].stock = @ + item.quantity])
            ELSE MemRestockLoop(items, i + 1, ps)

\* deleteSale as it would be if it gave the sold quantities back
Mem_deleteSaleRestock(id) ==
    /\ sales' = MapDelete(sales, id)
    /\ products' = IF id \in DOMAIN sales
                   THEN MemRestockLoop(sales[id].items, 1, products)
                   ELSE products
    /\ last' = Call("deleteSale", id, NoArg, BoolStr(id \in DOMAIN sales))
    /\ UNCHANGED <<costHistory, currentProductId, currentSaleId, currentHistoryId>>

Mem_deleteSale(id) ==
    /\ sales' = MapDelete(sales, id)
    /\ last' = Call("deleteSale", id, NoArg, BoolStr(id \in DOMAIN sales))
    /\ UNCHANGED <<products, costHistory, currentProductId, currentSaleId,
                   currentHistoryId>>

-----------------------------------------------------------------------------
(* Point of sale: DatabaseStorage (relational tables) *)

\* whether updateProduct records a cost change: the new cost's text differs
\* from the text the decimal column returns
DbCostChanged(existing, update) ==
    /\ "cost" \in DOMAIN update
    /\ Truthy(update.cost)
    /\ NumToString(update.cost) # existing.cost

\* the row createCostHistory inserts, as the table returns it
DbCostHistoryRow(hid, ins) ==
    [id |-> hid, productId |-> ins.productId,
     oldCost |-> DbDecimal(NumToString(ins.oldCost)),
     newCost |-> DbDecimal(NumToString(ins.newCost)), reason |-> ins.reason]

\* the column values db.update(...).set(updateData) writes: price, cost,
\* totalAmount and taxAmount as text into decimal columns, the rest as given
DbUpdateData(update) ==
    [f \in DOMAIN update |->
        IF f \in {"price", "cost", "totalAmount", "taxAmount"}
        THEN DbDecimal(NumToString(update[f]))
        ELSE update[f]]

Db_createProduct(ins) ==
    LET id == currentProductId
        product == Product(id, ins.category, DbDecimal(NumToString(ins.price)),
                           DbDecimal(NumToString(ins.cost)), ins.stock, ins.minStock)
    IN /\ currentProductId' = currentProductId + 1
       /\ products' = MapSet(products, id, product)
       /\ last' = Call("createProduct", id, ins, "record")
       /\ UNCHANGED <<sales, costHistory, currentSaleId, currentHistoryId>>

Db_updateProduct(id, update) ==
    IF id \notin DOMAIN products
    THEN /\ last' = Call("updateProduct", id, update, "undefined")
         /\ UNCHANGED posVars
    ELSE LET existing == products[id]
             updated == Merge(existing, DbUpdateData(update))
         IN /\ IF DbCostChanged(existing, update)
               THEN /\ costHistory' =
                          Append(costHistory,
                                 DbCostHistoryRow(currentHistoryId,
                                     [productId |-> id,
                                      oldCost |-> ParseFloat(existing.cost),
                                      newCost |-> update.cost,
                                      reason |-> "Manual update"]))
                    /\ currentHistoryId' = currentHistoryId + 1
               ELSE UNCHANGED <<costHistory, currentHistoryId>>
            /\ products' = MapSet(products, id, updated)
            /\ last' = Call("updateProduct", id, update, "record")
            /\ UNCHANGED <<sales, currentProductId, currentSaleId>>

\* cost_history.product_id references products.id: a product that history
\* rows point at cannot be deleted, the statement fails
DbReferenced(id) == \E i \in 1 .. Len(costHistory) : costHistory[i].productId = id

Db_deleteProduct(id) ==
    IF DbReferenced(id)
    THEN /\ last' = Call("deleteProduct", id, NoArg, "throws")
         /\ UNCHANGED posVars
    ELSE /\ products' = MapDelete(products, id)
         /\ last' = Call("deleteProduct", id, NoArg, BoolStr(id \in DOMAIN products))
         /\ UNCHANGED <<sales, costHistory, currentProductId, currentSaleId,
                        currentHistoryId>>

\* the stock loop of createSale, from item i on: each line selects the
\* product, then writes its stock less the line's quantity
RECURSIVE DbStockLoop(_, _, _)
DbStockLoop(items, i, ps) ==
    IF i > Len(items) THEN ps
    ELSE LET item == items[i]
         IN IF item.productId \in DOMAIN ps
            THEN DbStockLoop(items, i + 1,
                     [ps EXCEPT ![item.productId].stock = @ - item.quantity])
            ELSE DbStockLoop(items, i + 1, ps)

\* the row createSale inserts, as the table returns it (createdAt
\* defaults to now())
DbSaleRecord(id, ins, at) ==
    [id |-> id, totalAmount |-> DbDecimal(NumToString(ins.totalAmount)),
     taxAmount |-> DbDecimal(TaxAmountText(ins)), items |-> ins.items,
     createdAt |-> at]

Db_createSale(ins) ==
    LET id == currentSaleId
        sale == DbSaleRecord(id, ins, clock)
    IN /\ currentSaleId' = currentSaleId + 1
       /\ sales' = MapSet(sales, id, sale)
       /\ products' = DbStockLoop(ins.items, 1, products)
       /\ last' = Call("createSale", id, ins, "record")
       /\ UNCHANGED <<costHistory, currentProductId, currentHistoryId>>

Db_updateSale(id, update) ==
    IF id \notin DOMAIN sales
    THEN /\ last' = Call("updateSale", id, update, "undefined")
         /\ UNCHANGED posVars
    ELSE /\ sales' = MapSet(sales, id, Merge(sales[id], DbUpdateData(update)))
         /\ last' = Call("updateSale", id, update, "record")
         /\ UNCHANGED <<products, costHistory, currentProductId, currentSaleId,
                        currentHistoryId>>

Db_deleteSale(id) ==
    /\ sales' = MapDelete(sales, id)
    /\ last' = Call("deleteSale", id, NoArg, BoolStr(id \in DOMAIN sales))
    /\ UNCHANGED <<products, costHistory, currentProductId, currentSaleId,
                   currentHistoryId>>

-----------------------------------------------------------------------------
(* Point of sale: the storage calls, on whichever implementation runs *)

IsPos == variant \in {"mem", "db"}

createProduct(ins) ==
    /\ IsPos
    /\ currentProductId < FirstProductId + MaxNewProducts
    /\ IF variant = "mem" THEN Mem_createProduct(ins) ELSE Db_createProduct(ins)
    /\ UNCHANGED <<variant, envVars, recipeVars>>

updateProduct(id, update) ==
    /\ IsPos
    /\ IF variant = "mem" THEN Mem_updateProduct(id, update)
       ELSE Db_updateProduct(id, update)
    /\ currentHistoryId' <= MaxHistory + 1
    /\ UNCHANGED <<variant, envVars, recipeVars>>

deleteProduct(id) ==
    /\ IsPos
    /\ IF variant = "mem" THEN Mem_deleteProduct(id) ELSE Db_deleteProduct(id)
    /\ UNCHANGED <<variant, envVars, recipeVars>>

createSale(ins) ==
    /\ IsPos
    /\ currentSaleId < FirstSaleId + MaxNewSales
    /\ IF variant = "mem" THEN Mem_createSale(ins) ELSE Db_createSale(ins)
    /\ UNCHANGED <<variant, envVars, recipeVars>>

updateSale(id, update) ==
    /\ IsPos
    /\ IF variant = "mem" THEN Mem_updateSale(id, update) ELSE Db_updateSale(id, update)
    /\ UNCHANGED <<variant, envVars, recipeVars>>

deleteSale(id) ==
    /\ IsPos
    /\ IF variant = "mem" THEN Mem_deleteSale(id) ELSE Db_deleteSale(id)
    /\ UNCHANGED <<variant, envVars, recipeVars>>

-----------------------------------------------------------------------------
(* Point of sale: derived views *)

\* the ids of S in ascending order
RECURSIVE Ascending(_)
Ascending(S) ==
    IF S = {} THEN <<>>
    ELSE LET m == CHOOSE x \in S : \A y \in S : x <= y
         IN <<m>> \o Ascending(S \ {m})

Reverse(seq) == [i \in 1 .. Len(seq) |-> seq[Len(seq) + 1 - i]]

\* getProducts(): the map's values in insertion order; the table's rows
\* (no ORDER BY: the order is not specified, the model lists by id)
ProductsList == [i \in 1 .. Cardinality(DOMAIN products) |->
                    products[Ascending(DOMAIN products)[i]]]

\* getSales(): the map's values in insertion order, which is id order; the
\* table's rows by createdAt descending, which is id descending because a
\* later insert has a later createdAt
SalesList ==
    LET ids == IF variant = "mem" THEN Ascending(DOMAIN sales)
               ELSE Reverse(Ascending(DOMAIN sales))
    IN [i \in 1 .. Len(ids) |-> sales[ids[i]]]

\* the alert getInventoryAlerts makes of a product
Alert(product) ==
    [productId |-> product.id, currentStock |-> product.stock,
     minStock |-> product.minStock,
     severity |-> IF product.stock * 1000 <= (product.minStock * 1000) \div 2
                  THEN "critical" ELSE "low"]

\* Array.prototype.map
MapSeq(seq, Op(_)) == [i \in 1 .. Len(seq) |-> Op(seq[i])]

\* getInventoryAlerts as it would be if it left out a product whose stock is
\* exactly its minStock
InventoryAlertsStrict ==
    MapSeq(SelectSeq(ProductsList, LAMBDA product : product.stock < product.minStock),
           Alert)

\* the value getInventoryAlerts() returns: MemStorage filters on
\* stock <= minStock, DatabaseStorage first on minStock !== null
InventoryAlerts ==
    IF variant = "mem"
    THEN MapSeq(SelectSeq(ProductsList,
                          LAMBDA product : product.stock <= product.minStock),
                Alert)
    ELSE MapSeq(SelectSeq(ProductsList,
                          LAMBDA product : /\ "minStock" \in DOMAIN product
                                           /\ product.stock <= product.minStock),
                Alert)

getInventoryAlerts ==
    /\ IsPos
    /\ last' = CallOut("getInventoryAlerts", 0, NoArg, "record", Some(InventoryAlerts))
    /\ UNCHANGED <<variant, envVars, recipeVars, posVars>>

\* the itemDetails loop of getSaleWithDetails, from item i on
RECURSIVE ItemDetailsLoopLive(_, _, _)
ItemDetailsLoopLive(items, i, details) ==
    IF i > Len(items) THEN details
    ELSE LET item == items[i]
         IN IF item.productId \in DOMAIN products
            THEN ItemDetailsLoopLive(items, i + 1,
                     Append(details,
                         [product |-> products[item.productId],
                          quantity |-> item.quantity,
                          price |-> ParseFloat(products[item.productId].price),
                          total |-> ParseFloat(products[item.productId].price)
                                        * item.quantity]))
            ELSE ItemDetailsLoopLive(items, i + 1, details)

RECURSIVE ItemDetailsLoop(_, _, _)
ItemDetailsLoop(items, i, details) ==
    IF i > Len(items) THEN details
    ELSE LET item == items[i]
         IN IF item.productId \in DOMAIN products
            THEN ItemDetailsLoop(items, i + 1,
                     Append(details, [product |-> products[item.productId],
                                      quantity |-> item.quantity,
                                      price |-> item.price,
                                      total |-> item.total]))
            ELSE ItemDetailsLoop(items, i + 1, details)

\* { ...sale, itemDetails }
WithDetails(sale) ==
    Merge(sale, [itemDetails |-> ItemDetailsLoop(sale.items, 1, <<>>)])

\* the value getSaleWithDetails(id) returns
SaleWithDetails(id) ==
    IF id \notin DOMAIN sales THEN Absent ELSE Some(WithDetails(sales[id]))

getSaleWithDetails(id) ==
    /\ IsPos
    /\ last' = CallOut("getSaleWithDetails", id, NoArg,
                       IF id \in DOMAIN sales THEN "record" ELSE "undefined",
                       SaleWithDetails(id))
    /\ UNCHANGED <<variant, envVars, recipeVars, posVars>>

\* getSalesWithDetails(): every listed sale with its details
SalesWithDetails == MapSeq(SalesList, WithDetails)

(***************************************************************************)
(* Point of sale: getSalesAnalytics                                        *)
(***************************************************************************)

\* the window a caller asks for: the days given, or the default
DefaultDays == 30
DaysOf(arg) == IF "days" \in DOMAIN arg THEN arg.days ELSE DefaultDays

\* Date.now() - days * 24 * 60 * 60 * 1000
CutoffDate(days) == clock - days * TicksPerDay

RecentSalesStrict(days) ==
    SelectSeq(SalesWithDetails, LAMBDA sale : sale.createdAt > CutoffDate(days))

\* the sales of the window, with details.  MemStorage filters
\* getSalesWithDetails(); DatabaseStorage selects the rows with
\* gte(createdAt, cutoffDate), newest first, and expands each one.
RecentSales(days) ==
    SelectSeq(SalesWithDetails, LAMBDA sale : sale.createdAt >= CutoffDate(days))

\* reduce((sum, x) => sum + x, 0) from entry i on
RECURSIVE SumFrom(_, _)
SumFrom(nums, i) == IF i > Len(nums) THEN 0 ELSE nums[i] + SumFrom(nums, i + 1)
Sum(nums) == SumFrom(nums, 1)

SaleAmountResolved(sale) ==
    Sum(MapSeq(sale.itemDetails, LAMBDA item : item.total))

\* parseFloat(sale.totalAmount)
SaleAmount(sale) == ParseFloat(sale.totalAmount)

ItemProfitUnit(item) == item.total - ParseFloat(item.product.cost)

\* itemRevenue - itemCost
ItemProfit(item) == item.total - ParseFloat(item.product.cost) * item.quantity

SaleProfit(sale) == Sum(MapSeq(sale.itemDetails, ItemProfit))

\* the revenue and the profit of a list of sales
Revenue(list) == Sum(MapSeq(list, SaleAmount))
Profit(list) == Sum(MapSeq(list, SaleProfit))

AverageOrderValueUnguarded(total, count) == Div(total, count)

\* length > 0 ? totalSales / length : 0, as a quotient (the number 0 is 0 / 1)
AverageOrderValue(total, count) ==
    IF count > 0 THEN Div(total, count) ELSE Div(0, 1)

\* the item details of a list of sales, in the order forEach visits them
RECURSIVE ItemsFrom(_, _)
ItemsFrom(list, i) ==
    IF i > Len(list) THEN <<>> ELSE list[i].itemDetails \o ItemsFrom(list, i + 1)

\* productSales: one entry per product id, in order of first insertion
RECURSIVE ProductSalesLoop(_, _, _)
ProductSalesLoop(items, i, entries) ==
    IF i > Len(items) THEN entries
    ELSE LET item == items[i]
             at == {j \in 1 .. Len(entries) : entries[j].product.id = item.product.id}
         IN IF at # {}
            THEN ProductSalesLoop(items, i + 1,
                     [j \in 1 .. Len(entries) |->
                         IF j \in at
                         THEN [entries[j] EXCEPT
                                  !.totalSold = @ + item.quantity,
                                  !.revenue = @ + item.total]
                         ELSE entries[j]])
            ELSE ProductSalesLoop(items, i + 1,
                     Append(entries, [product |-> item.product,
                                      totalSold |-> item.quantity,
                                      revenue |-> item.total]))

\* entry e put in front of the first entry that sold no more than it
InsertBeforeEqual(sorted, e) ==
    LET before == {j \in 1 .. Len(sorted) : sorted[j].totalSold > e.totalSold}
        n == Cardinality(before)
    IN SubSeq(sorted, 1, n) \o <<e>> \o SubSeq(sorted, n + 1, Len(sorted))

\* entry e put behind the last entry that sold at least as much
InsertAfterEqual(sorted, e) ==
    LET before == {j \in 1 .. Len(sorted) : sorted[j].totalSold >= e.totalSold}
        n == Cardinality(before)
    IN SubSeq(sorted, 1, n) \o <<e>> \o SubSeq(sorted, n + 1, Len(sorted))

RECURSIVE SortByTotalSoldUnstable(_, _, _)
SortByTotalSoldUnstable(entries, i, sorted) ==
    IF i > Len(entries) THEN sorted
    ELSE SortByTotalSoldUnstable(entries, i + 1, InsertBeforeEqual(sorted, entries[i]))

\* .sort((a, b) => b.totalSold - a.totalSold): a stable sort, most sold first
RECURSIVE SortByTotalSold(_, _, _)
SortByTotalSold(entries, i, sorted) ==
    IF i > Len(entries) THEN sorted
    ELSE SortByTotalSold(entries, i + 1, InsertAfterEqual(sorted, entries[i]))

\* .slice(0, 5)
TopCount == 5
Slice(seq, n) == SubSeq(seq, 1, IF Len(seq) < n THEN Len(seq) ELSE n)

TopSellingProducts(list) ==
    Slice(SortByTotalSold(ProductSalesLoop(ItemsFrom(list, 1), 1, <<>>), 1, <<>>),
          TopCount)

\* salesByCategory[category] = (salesByCategory[category] || 0) + item.total
RECURSIVE CategoryLoop(_, _, _)
CategoryLoop(items, i, byCategory) ==
    IF i > Len(items) THEN byCategory
    ELSE LET item == items[i]
             category == item.product.category
             sofar == IF category \in DOMAIN byCategory THEN byCategory[category]
                      ELSE 0
         IN CategoryLoop(items, i + 1,
                [c \in DOMAIN byCategory \cup {category} |->
                    IF c = category THEN sofar + item.total ELSE byCategory[c]])

SalesByCategory(list) == CategoryLoop(ItemsFrom(list, 1), 1, EmptyPatch)

\* the zone's offset at an instant, the local calendar day of an instant,
\* and the instant a local day starts (new Date(y, m, d) is local midnight,
\* read with the offset in force at that midnight)
TrendDays == 7
OffsetAt(t) == tz + (IF t >= dst.at THEN dst.shift ELSE 0)
LocalDay(t) == (t + OffsetAt(t)) \div TicksPerDay
DayStart(day) ==
    LET shifted == day * TicksPerDay - tz - dst.shift
    IN IF shifted >= dst.at THEN shifted ELSE day * TicksPerDay - tz

\* dayStart.toISOString().split('T')[0]: the UTC calendar day of the instant
IsoDate(t) == t \div TicksPerDay

\* the trend entry of the day i days before now, over the sales of the window
TrendEntry(i, list) ==
    LET dayStart == DayStart(LocalDay(clock - i * TicksPerDay))
        dayEnd == dayStart + TicksPerDay
        daySales == SelectSeq(list, LAMBDA sale :
                        sale.createdAt >= dayStart /\ sale.createdAt < dayEnd)
    IN [date |-> IsoDate(dayStart), sales |-> Revenue(daySales),
        profit |-> Profit(daySales)]

\* for (let i = 6; i >= 0; i--) salesTrend.push(...)
SalesTrend(list) == [k \in 1 .. TrendDays |-> TrendEntry(TrendDays - k, list)]

\* the value getSalesAnalytics(days) returns
SalesAnalytics(days) ==
    LET recentSales == RecentSales(days)
        totalSales == Revenue(recentSales)
    IN [totalSales |-> totalSales,
        totalProfit |-> Profit(recentSales),
        averageOrderValue |-> AverageOrderValue(totalSales, Len(recentSales)),
        topSellingProducts |-> TopSellingProducts(recentSales),
        salesByCategory |-> SalesByCategory(recentSales),
        salesTrend |-> SalesTrend(recentSales)]

getSalesAnalytics(arg) ==
    /\ IsPos
    /\ last' = CallOut("getSalesAnalytics", 0, arg, "record",
                       Some(SalesAnalytics(DaysOf(arg))))
    /\ UNCHANGED <<variant, envVars, recipeVars, posVars>>

-----------------------------------------------------------------------------
(* Requests in flight: the storage calls, one await at a time *)

\* A request that arrived runs until its first await; each later step runs
\* it from one await to the next, and steps of different requests
\* interleave.  A request is [op, id, arg, pc, i, read]: the call, the id it
\* works on, its body, the await it stands at ("done" once it returned),
\* the index of its loop and the value its last read returned.
Request(op, id, arg, pc) ==
    [op |-> op, id |-> id, arg |-> arg, pc |-> pc, i |-> 1, read |-> Absent]

Requests == DOMAIN inflight
AllDone == \A r \in Requests : inflight[r].pc = "done"

\* the call of request r returned: it becomes the last completed call
Returned(req, ret) == last' = Call(req.op, req.id, req.arg, ret)

\* MemStorage.createSale has no await: it runs to its return when it
\* arrives.  DatabaseStorage.createSale awaits the insert, then for each
\* item the select of the product and the update of its stock.
ArriveCreateSale(ins) ==
    /\ IsPos
    /\ Len(inflight) < MaxRequests
    /\ IF variant = "mem"
       THEN /\ Mem_createSale(ins)
            /\ inflight' = Append(inflight,
                                  Request("createSale", currentSaleId, ins, "done"))
       ELSE /\ inflight' = Append(inflight, Request("createSale", 0, ins, "insert"))
            /\ UNCHANGED <<posVars, last>>
    /\ UNCHANGED <<variant, recipeVars, clock, tz, dst, catalogue, cart, submitted, twin>>

\* where createSale stands once it is at item i of its loop
SaleLoopPc(req, i) == IF i > Len(req.arg.items) THEN "done" ELSE "read"

\* request r moves on to item i of its loop, or returns
SaleLoopNext(r, i) ==
    LET req == inflight[r]
        pc == SaleLoopPc(req, i)
    IN /\ inflight' = [inflight EXCEPT ![r] =
                          [req EXCEPT !.pc = pc, !.i = i, !.read = Absent]]
       /\ IF pc = "done" THEN Returned(req, "record") ELSE UNCHANGED last

\* await db.insert(sales).values(saleData).returning()
DbSaleInsert(r) ==
    /\ variant = "db"
    /\ inflight[r].op = "createSale"
    /\ inflight[r].pc = "insert"
    /\ LET id == currentSaleId
           req == [inflight[r] EXCEPT !.id = id]
           pc == SaleLoopPc(req, 1)
       IN /\ sales' = MapSet(sales, id, DbSaleRecord(id, req.arg, clock))
          /\ currentSaleId' = currentSaleId + 1
          /\ inflight' = [inflight EXCEPT ![r] = [req EXCEPT !.pc = pc]]
          /\ IF pc = "done" THEN Returned(req, "record") ELSE UNCHANGED last
    /\ UNCHANGED <<variant, recipeVars, clock, tz, dst, catalogue, cart, submitted, twin, products,
                   costHistory, currentProductId, currentHistoryId>>

\* const product = await this.getProduct(item.productId); if (product) ...
DbSaleRead(r) ==
    /\ variant = "db"
    /\ inflight[r].op = "createSale"
    /\ inflight[r].pc = "read"
    /\ LET req == inflight[r]
           item == req.arg.items[req.i]
       IN IF item.productId \in DOMAIN products
          THEN /\ inflight' = [inflight EXCEPT ![r] =
                                  [req EXCEPT !.pc = "write",
                                              !.read = Some(products[item.productId])]]
               /\ UNCHANGED last
          ELSE SaleLoopNext(r, req.i + 1)
    /\ UNCHANGED <<variant, recipeVars, clock, tz, dst, catalogue, cart, submitted, twin, posVars>>

\* await db.update(products).set({ stock: product.stock - item.quantity })
\*          .where(eq(products.id, item.productId))
DbSaleWrite(r) ==
    /\ variant = "db"
    /\ inflight[r].op = "createSale"
    /\ inflight[r].pc = "write"
    /\ LET req == inflight[r]
           item == req.arg.items[req.i]
       IN /\ products' =
                IF item.productId \in DOMAIN products
                THEN [products EXCEPT
                         ![item.productId].stock = req.read.val.stock - item.quantity]
                ELSE products
          /\ SaleLoopNext(r, req.i + 1)
    /\ UNCHANGED <<variant, recipeVars, clock, tz, dst, catalogue, cart, submitted, twin, sales,
                   costHistory, currentProductId, currentSaleId, currentHistoryId>>

\* MemStorage.createIngredient has no await: read of the counter, increment
\* and Map.set happen when the request arrives
ArriveCreateIngredient(ins) ==
    /\ variant = "recipe"
    /\ Len(inflight) < MaxRequests
    /\ currentIngredientId <= MaxIngredientId
    /\ LET id == currentIngredientId
           ingredient == [id |-> id, costPerUnit |-> ins.costPerUnit]
       IN /\ currentIngredientId' = currentIngredientId + 1
          /\ ingredients' = [k \in DOMAIN ingredients \cup {id} |->
                                IF k = id THEN ingredient ELSE ingredients[k]]
          /\ last' = Call("createIngredient", id, ins, "record")
          /\ inflight' = Append(inflight, Request("createIngredient", id, ins, "done"))
    /\ UNCHANGED <<variant, recipes, currentRecipeId, posVars, clock, tz, dst, catalogue, cart,
                   submitted, twin>>

\* MemStorage.createProduct has no await; DatabaseStorage.createProduct
\* awaits its insert
ArriveCreateProduct(ins) ==
    /\ IsPos
    /\ Len(inflight) < MaxRequests
    /\ currentProductId < FirstProductId + MaxNewProducts
    /\ IF variant = "mem"
       THEN /\ Mem_createProduct(ins)
            /\ inflight' = Append(inflight,
                                  Request("createProduct", currentProductId, ins, "done"))
       ELSE /\ inflight' = Append(inflight, Request("createProduct", 0, ins, "insert"))
            /\ UNCHANGED <<posVars, last>>
    /\ UNCHANGED <<variant, recipeVars, clock, tz, dst, catalogue, cart, submitted, twin>>

\* await db.insert(products).values(insertProduct).returning()
DbProductInsert(r) ==
    /\ variant = "db"
    /\ inflight[r].op = "createProduct"
    /\ inflight[r].pc = "insert"
    /\ Db_createProduct(inflight[r].arg)
    /\ inflight' = [inflight EXCEPT ![r] =
                       [inflight[r] EXCEPT !.pc = "done", !.id = currentProductId]]
    /\ UNCHANGED <<variant, recipeVars, clock, tz, dst, catalogue, cart, submitted, twin>>

\* the product MemStorage.updateProduct stores: { ...existing, ...update }
\* with price and cost as text, the stored text kept where the patch has
\* none
MemUpdated(existing, update) ==
    [Merge(existing, update) EXCEPT
        !.price = IF "price" \in DOMAIN update /\ Truthy(update.price)
                  THEN NumToString(update.price)
                  ELSE existing.price,
        !.cost = IF "cost" \in DOMAIN update /\ Truthy(update.cost)
                 THEN NumToString(update.cost)
                 ELSE existing.cost]

\* an updateProduct request: i is the position of the history row it
\* appended (0 while it has none), read the product it read as `existing`
UpdateRequest(id, update, pc, row, existing) ==
    [Request("updateProduct", id, update, pc) EXCEPT !.i = row, !.read = existing]

\* what a returned updateProduct leaves in `last`: its result, the history
\* row it appended and the product it returned
UpdateReturned(req, ret, updated) ==
    last' = CallOut(req.op, req.id, req.arg, ret,
                    [row |-> IF req.i > 0 THEN Some(costHistory[req.i]) ELSE Absent,
                     updated |-> updated])

\* MemStorage.updateProduct: `existing` is read when the request arrives;
\* with a changed cost createCostHistory runs (it has no await) and the
\* request waits at `await this.createCostHistory(...)`, otherwise
\* this.products.set follows at once.  DatabaseStorage.updateProduct waits
\* at `await this.getProduct(id)`.
ArriveUpdateProduct(id, update) ==
    /\ IsPos
    /\ Len(inflight) < MaxRequests
    /\ IF variant = "db"
       THEN /\ inflight' = Append(inflight, UpdateRequest(id, update, "get", 0, Absent))
            /\ UNCHANGED <<posVars, last>>
       ELSE IF id \notin DOMAIN products
       THEN /\ inflight' = Append(inflight, UpdateRequest(id, update, "done", 0, Absent))
            /\ UpdateReturned(UpdateRequest(id, update, "done", 0, Absent),
                              "undefined", Absent)
            /\ UNCHANGED posVars
       ELSE LET existing == products[id]
            IN IF MemCostChanged(existing, update)
               THEN /\ currentHistoryId <= MaxHistory
                    /\ costHistory' =
                          Append(costHistory,
                                 MemCostHistoryRow(currentHistoryId,
                                     [productId |-> id, oldCost |-> existing.cost,
                                      newCost |-> NumToString(update.cost),
                                      reason |-> "Manual update"]))
                    /\ currentHistoryId' = currentHistoryId + 1
                    /\ inflight' = Append(inflight,
                                          UpdateRequest(id, update, "set",
                                                        Len(costHistory) + 1,
                                                        Some(existing)))
                    /\ UNCHANGED <<products, sales, currentProductId, currentSaleId,
                                   last>>
               ELSE /\ products' = MapSet(products, id, MemUpdated(existing, update))
                    /\ inflight' = Append(inflight,
                                          UpdateRequest(id, update, "done", 0,
                                                        Some(existing)))
                    /\ UpdateReturned(UpdateRequest(id, update, "done", 0,
                                                    Some(existing)),
                                      "record", Some(MemUpdated(existing, update)))
                    /\ UNCHANGED <<sales, costHistory, currentProductId,
                                   currentSaleId, currentHistoryId>>
    /\ UNCHANGED <<variant, recipeVars, clock, tz, dst, catalogue, cart, submitted, twin>>

\* this.products.set(id, updated) after the await, with `existing` as it
\* was read on arrival
MemUpdateSet(r) ==
    /\ variant = "mem"
    /\ inflight[r].op = "updateProduct"
    /\ inflight[r].pc = "set"
    /\ LET req == inflight[r]
       IN /\ products' = MapSet(products, req.id, MemUpdated(req.read.val, req.arg))
          /\ inflight' = [inflight EXCEPT ![r] = [req EXCEPT !.pc = "done"]]
          /\ UpdateReturned(req, "record", Some(MemUpdated(req.read.val, req.arg)))
    /\ UNCHANGED <<variant, recipeVars, clock, tz, dst, catalogue, cart, submitted, twin, sales,
                   costHistory, currentProductId, currentSaleId, currentHistoryId>>

\* const existing = await this.getProduct(id); if (!existing) return undefined
DbUpdateGet(r) ==
    /\ variant = "db"
    /\ inflight[r].op = "updateProduct"
    /\ inflight[r].pc = "get"
    /\ LET req == inflight[r]
       IN IF req.id \notin DOMAIN products
          THEN /\ inflight' = [inflight EXCEPT ![r] = [req EXCEPT !.pc = "done"]]
               /\ UpdateReturned(req, "undefined", Absent)
          ELSE /\ inflight' = [inflight EXCEPT ![r] =
                                  [req EXCEPT
                                     !.read = Some(products[req.id]),
                                     !.pc = IF DbCostChanged(products[req.id], req.arg)
                                            THEN "history" ELSE "update"]]
               /\ UNCHANGED last
    /\ UNCHANGED <<variant, recipeVars, clock, tz, dst, catalogue, cart, submitted, twin, posVars>>

\* await this.createCostHistory({ productId: id,
\*     oldCost: parseFloat(existing.cost), newCost: update.cost, ... })
DbUpdateHistory(r) ==
    /\ variant = "db"
    /\ inflight[r].op = "updateProduct"
    /\ inflight[r].pc = "history"
    /\ currentHistoryId <= MaxHistory
    /\ LET req == inflight[r]
       IN /\ costHistory' =
                Append(costHistory,
                       DbCostHistoryRow(currentHistoryId,
                           [productId |-> req.id,
                            oldCost |-> ParseFloat(req.read.val.cost),
                            newCost |-> req.arg.cost,
                            reason |-> "Manual update"]))
          /\ currentHistoryId' = currentHistoryId + 1
          /\ inflight' = [inflight EXCEPT ![r] =
                             [req EXCEPT !.pc = "update", !.i = Len(costHistory) + 1]]
    /\ UNCHANGED <<variant, recipeVars, clock, tz, dst, catalogue, cart, submitted, twin, products, sales,
                   currentProductId, currentSaleId, last>>

\* await db.update(products).set(updateData).where(eq(products.id, id))
\*          .returning(): the columns of the patch are written, the others
\* are left as the row has them
DbUpdateWrite(r) ==
    /\ variant = "db"
    /\ inflight[r].op = "updateProduct"
    /\ inflight[r].pc = "update"
    /\ LET req == inflight[r]
       IN /\ products' =
                IF req.id \in DOMAIN products
                THEN MapSet(products, req.id,
                            Merge(products[req.id], DbUpdateData(req.arg)))
                ELSE products
          /\ inflight' = [inflight EXCEPT ![r] = [req EXCEPT !.pc = "done"]]
          /\ IF req.id \in DOMAIN products
             THEN UpdateReturned(req, "record",
                                 Some(Merge(products[req.id], DbUpdateData(req.arg))))
             ELSE UpdateReturned(req, "undefined", Absent)
    /\ UNCHANGED <<variant, recipeVars, clock, tz, dst, catalogue, cart, submitted, twin, sales,
                   costHistory, currentProductId, currentSaleId, currentHistoryId>>

-----------------------------------------------------------------------------
(* REST handlers of registerRoutes: ingredients and products *)

\* storage.getIngredient(id) and storage.getProduct(id)
getIngredient(id) ==
    /\ variant = "recipe"
    /\ last' = CallOut("getIngredient", id, NoArg,
                       IF id \in DOMAIN ingredients THEN "record" ELSE "undefined",
                       IF id \in DOMAIN ingredients THEN Some(ingredients[id])
                       ELSE Absent)
    /\ UNCHANGED <<variant, envVars, recipeVars, posVars>>

getProduct(id) ==
    /\ IsPos
    /\ last' = CallOut("getProduct", id, NoArg,
                       IF id \in DOMAIN products THEN "record" ELSE "undefined",
                       IF id \in DOMAIN products THEN Some(products[id]) ELSE Absent)
    /\ UNCHANGED <<variant, envVars, recipeVars, posVars>>

\* a decimal string, as the ingredient schema requires for costPerUnit
IsDecimalString(v) == DOMAIN v = {"m", "dp"}

\* insertIngredientSchema.parse(body) succeeds: costPerUnit is required and
\* is a string; with .partial() it may be left out
IngredientBodyValid(body, partial) ==
    /\ partial \/ "costPerUnit" \in DOMAIN body
    /\ "costPerUnit" \in DOMAIN body => IsDecimalString(body.costPerUnit)

\* insertProductSchema.parse(body) succeeds: category, price and cost are
\* required, price and cost are positive numbers, stock and minStock are
\* integers of at least 0; with .partial() every field may be left out
ProductBodyValid(body, partial) ==
    /\ partial \/ {"category", "price", "cost"} \subseteq DOMAIN body
    /\ \A f \in DOMAIN body \cap {"price", "cost"} : body[f] > 0
    /\ \A f \in DOMAIN body \cap {"stock", "minStock"} : body[f] >= 0

\* the data insertProductSchema.parse returns: the body with the defaults
\* of the fields it leaves out
ProductDefaults == [stock |-> 0, minStock |-> 5]
ProductParsed(body) == Merge(ProductDefaults, body)

\* parse threw a ZodError: the handler's try block ends before the store is
\* called
Rejected(route, id, body) ==
    /\ last' = Call(route, id, body, "ZodError")
    /\ UNCHANGED <<variant, envVars, recipeVars, posVars>>

\* app.get("/api/ingredients/:id"), app.post("/api/ingredients"),
\* app.put("/api/ingredients/:id"), app.delete("/api/ingredients/:id")
GetIngredientRoute(id) == getIngredient(id)

PostIngredientRoute(body) ==
    IF IngredientBodyValid(body, FALSE) THEN createIngredient(body)
    ELSE variant = "recipe" /\ Rejected("POST /api/ingredients", 0, body)

PutIngredientRoute(id, body) ==
    IF IngredientBodyValid(body, TRUE) THEN updateIngredient(id, body)
    ELSE variant = "recipe" /\ Rejected("PUT /api/ingredients/:id", id, body)

DeleteIngredientRoute(id) == deleteIngredient(id)

\* app.get("/api/products/:id"), app.post("/api/products"),
\* app.put("/api/products/:id"), app.delete("/api/products/:id")
GetProductRoute(id) == getProduct(id)

PostProductRoute(body) ==
    IF ProductBodyValid(body, FALSE) THEN createProduct(ProductParsed(body))
    ELSE IsPos /\ Rejected("POST /api/products", 0, body)

PutProductRoute(id, body) ==
    IF ProductBodyValid(body, TRUE) THEN updateProduct(id, body)
    ELSE IsPos /\ Rejected("PUT /api/products/:id", id, body)

DeleteProductRoute(id) == deleteProduct(id)

\* insertRecipeSchema.parse(body) succeeds: servings and ingredients are
\* required, servings is an integer (the schema derived from the table puts
\* no bound on it), every ingredient line has a positive quantity; with
\* .partial() every field may be left out
RecipeBodyValid(body, partial) ==
    /\ partial \/ {"servings", "ingredients"} \subseteq DOMAIN body
    /\ "servings" \in DOMAIN body => body.servings \in Int
    /\ "ingredients" \in DOMAIN body =>
          \A i \in 1 .. Len(body.ingredients) : body.ingredients[i].quantity > 0

\* app.get("/api/recipes/:id"), app.post("/api/recipes"),
\* app.put("/api/recipes/:id")
GetRecipeRoute(id) == getRecipeWithDetails(id)

PostRecipeRoute(body) ==
    IF RecipeBodyValid(body, FALSE) THEN createRecipe(body)
    ELSE variant = "recipe" /\ Rejected("POST /api/recipes", 0, body)

PutRecipeRoute(id, body) ==
    IF RecipeBodyValid(body, TRUE) THEN updateRecipe(id, body)
    ELSE variant = "recipe" /\ Rejected("PUT /api/recipes/:id", id, body)

\* the storage calls behind the handlers, by what the handler does with
\* their result
CreateCalls == {"createIngredient", "createProduct"}
DeleteCalls == {"deleteIngredient", "deleteProduct"}

Reply(status, body) == [status |-> status, body |-> body]

ResponseIgnoringMissing ==
    CASE last.ret = "ZodError" -> Reply(400, "errors")
      [] last.ret = "throws" -> Reply(500, "message")
      [] last.op \in CreateCalls -> Reply(201, "record")
      [] last.op \in DeleteCalls -> Reply(204, "empty")
      [] OTHER -> Reply(200, "record")

\* what the handler that made the last call answered: the catch block maps
\* a ZodError to 400 with the errors and anything else thrown to 500 with a
\* message; otherwise a missing result gives 404, a create 201, a delete 204
\* and a read or update 200 with the record
Response ==
    CASE last.ret = "ZodError" -> Reply(400, "errors")
      [] last.ret = "throws" -> Reply(500, "message")
      [] last.op \in CreateCalls -> Reply(201, "record")
      [] last.op \in DeleteCalls ->
            IF last.ret = "false" THEN Reply(404, "message") ELSE Reply(204, "empty")
      [] OTHER ->
            IF last.ret = "undefined" THEN Reply(404, "message")
            ELSE Reply(200, "record")

-----------------------------------------------------------------------------
(* Two servers, one per storage implementation, given the same calls *)

\* The store variables hold the tables of the server named by `variant`;
\* twin.store holds the other server's.  A call goes to the in-memory
\* server first, then the same call goes to the relational one; twin.call
\* is what the first server answered, twin.n the number of calls made.
StoreOf ==
    [products |-> products, sales |-> sales, costHistory |-> costHistory,
     currentProductId |-> currentProductId, currentSaleId |-> currentSaleId,
     currentHistoryId |-> currentHistoryId]

\* one storage call, on the implementation of this server
StoreCall(op, id, arg) ==
    IF variant = "mem"
    THEN CASE op = "createProduct" -> Mem_createProduct(arg)
           [] op = "updateProduct" -> Mem_updateProduct(id, arg)
           [] op = "deleteProduct" -> Mem_deleteProduct(id)
           [] op = "createSale" -> Mem_createSale(arg)
           [] op = "updateSale" -> Mem_updateSale(id, arg)
           [] op = "deleteSale" -> Mem_deleteSale(id)
    ELSE CASE op = "createProduct" -> Db_createProduct(arg)
           [] op = "updateProduct" -> Db_updateProduct(id, arg)
           [] op = "deleteProduct" -> Db_deleteProduct(id)
           [] op = "createSale" -> Db_createSale(arg)
           [] op = "updateSale" -> Db_updateSale(id, arg)
           [] op = "deleteSale" -> Db_deleteSale(id)

\* the call reaches the first server
TwinFirst(op, id, arg) ==
    /\ twin.phase = "first"
    /\ twin.n < MaxTwinCalls
    /\ StoreCall(op, id, arg)
    /\ twin' = [twin EXCEPT !.phase = "firstDone", !.n = twin.n + 1]
    /\ UNCHANGED <<variant, recipeVars, clock, tz, dst, inflight, catalogue, cart, submitted>>

\* the same call reaches the second server
TwinSecond ==
    /\ twin.phase = "second"
    /\ StoreCall(twin.call.op, twin.call.id, twin.call.arg)
    /\ twin' = [twin EXCEPT !.phase = "compared"]
    /\ UNCHANGED <<variant, recipeVars, clock, tz, dst, inflight, catalogue, cart, submitted>>

\* the store variables turn to the other server
TwinSwitch ==
    /\ twin.phase \in {"firstDone", "compared"}
    /\ variant' = IF variant = "mem" THEN "db" ELSE "mem"
    /\ products' = twin.store.products
    /\ sales' = twin.store.sales
    /\ costHistory' = twin.store.costHistory
    /\ currentProductId' = twin.store.currentProductId
    /\ currentSaleId' = twin.store.currentSaleId
    /\ currentHistoryId' = twin.store.currentHistoryId
    /\ twin' = [twin EXCEPT
                  !.phase = IF twin.phase = "firstDone" THEN "second" ELSE "first",
                  !.store = StoreOf,
                  !.call = IF twin.phase = "firstDone" THEN last ELSE twin.call]
    /\ UNCHANGED <<recipeVars, clock, tz, dst, inflight, catalogue, cart, submitted, last>>

-----------------------------------------------------------------------------
(* The POS page of the client: the cart and its checkout *)

\* The page keeps the cart (useState), shows the products of its
\* ["/api/products"] query and sends the sale with createSaleMutation.
\* `catalogue` is the data of the query; submitted.status is the state of the
\* mutation, submitted.data the body it sent, and submitted.stale says that
\* the query was invalidated and its refetch has not arrived yet.  Every
\* event of the page leaves in `last` the cart as it was before the event.
PageEvent(op, id, ret, out) ==
    last' = CallOut(op, id, [cart |-> cart], ret, out)

\* the position of product pid's line in a cart, 0 if it has none
LineOf(lines, pid) ==
    IF \E k \in 1 .. Len(lines) : lines[k].product.id = pid
    THEN CHOOSE k \in 1 .. Len(lines) : lines[k].product.id = pid
    ELSE 0

\* the cart after addToCart(product):
\* existingItem ? prev.map(item => item.product.id === product.id
\*     ? { ...item, quantity: item.quantity + 1,
\*         total: (item.quantity + 1) * parseFloat(product.price) } : item)
\*   : [...prev, { product, quantity: 1, total: parseFloat(product.price) }]
AddedTo(lines, product) ==
    IF LineOf(lines, product.id) > 0
    THEN [k \in 1 .. Len(lines) |->
             IF lines[k].product.id = product.id
             THEN [lines[k] EXCEPT
                     !.quantity = lines[k].quantity + 1,
                     !.total = (lines[k].quantity + 1) * ParseFloat(product.price)]
             ELSE lines[k]]
    ELSE Append(lines, [product |-> product, quantity |-> 1,
                        total |-> ParseFloat(product.price)])

\* prev.filter(item => item.product.id !== productId)
Removed(lines, pid) == SelectSeq(lines, LAMBDA item : item.product.id # pid)

\* the cart after updateQuantity(productId, newQuantity)
WithQuantity(lines, pid, newQuantity) ==
    IF newQuantity <= 0 THEN Removed(lines, pid)
    ELSE [k \in 1 .. Len(lines) |->
             IF lines[k].product.id = pid
             THEN [lines[k] EXCEPT
                     !.quantity = newQuantity,
                     !.total = newQuantity * ParseFloat(lines[k].product.price)]
             ELSE lines[k]]

\* a product card is clicked: onClick={() => addToCart(product)}
addToCart(pid) ==
    /\ IsPos
    /\ pid \in DOMAIN catalogue
    /\ LineOf(cart, pid) > 0 => cart[LineOf(cart, pid)].quantity < MaxQuantity
    /\ cart' = AddedTo(cart, catalogue[pid])
    /\ PageEvent("addToCart", pid, "done", NoArg)
    /\ UNCHANGED <<variant, recipeVars, posVars, clock, tz, dst, inflight, catalogue,
                   submitted, twin>>

\* the minus and plus buttons of a line:
\* updateQuantity(item.product.id, item.quantity - 1) and (..., item.quantity + 1)
updateQuantity(pid, step) ==
    /\ IsPos
    /\ LineOf(cart, pid) > 0
    /\ cart[LineOf(cart, pid)].quantity + step <= MaxQuantity
    /\ cart' = WithQuantity(cart, pid, cart[LineOf(cart, pid)].quantity + step)
    /\ PageEvent("updateQuantity", pid, "done",
                 [newQuantity |-> cart[LineOf(cart, pid)].quantity + step])
    /\ UNCHANGED <<variant, recipeVars, posVars, clock, tz, dst, inflight, catalogue,
                   submitted, twin>>

\* the X button of a line
removeFromCart(pid) ==
    /\ IsPos
    /\ LineOf(cart, pid) > 0
    /\ cart' = Removed(cart, pid)
    /\ PageEvent("removeFromCart", pid, "done", NoArg)
    /\ UNCHANGED <<variant, recipeVars, posVars, clock, tz, dst, inflight, catalogue,
                   submitted, twin>>

\* subtotal, tax (8%) and total of the cart
Subtotal(lines) == Sum(MapSeq(lines, LAMBDA item : item.total))
Tax(lines) == (Subtotal(lines) * 8) \div 100

\* the body handleCheckout sends
SaleData(lines) ==
    [totalAmount |-> Subtotal(lines) + Tax(lines),
     taxAmount |-> Tax(lines),
     items |-> MapSeq(lines, LAMBDA item :
                   [productId |-> item.product.id, quantity |-> item.quantity,
                    price |-> ParseFloat(item.product.price), total |-> item.total])]

\* the "Complete Sale" button, disabled while the mutation is pending
handleCheckout ==
    /\ IsPos
    /\ submitted.status # "pending"
    /\ IF cart = <<>>
       THEN /\ PageEvent("handleCheckout", 0, "toast", NoArg)
            /\ UNCHANGED submitted
       ELSE /\ PageEvent("handleCheckout", 0, "mutate", Some(SaleData(cart)))
            /\ submitted' = [submitted EXCEPT !.status = "pending",
                                              !.data = SaleData(cart)]
    /\ UNCHANGED <<variant, recipeVars, posVars, clock, tz, dst, inflight, catalogue,
                   cart, twin>>

\* POST /api/sales stores the sale and answers 201: onSuccess invalidates
\* the queries and empties the cart
SaleSucceeds ==
    /\ IsPos
    /\ submitted.status = "pending"
    /\ currentSaleId < FirstSaleId + MaxNewSales
    /\ IF variant = "mem" THEN Mem_createSale(submitted.data)
       ELSE Db_createSale(submitted.data)
    /\ cart' = <<>>
    /\ submitted' = [submitted EXCEPT !.status = "success", !.stale = TRUE]
    /\ UNCHANGED <<variant, recipeVars, clock, tz, dst, inflight, catalogue, twin>>

\* the request fails (no answer, or an answer that is not 2xx): onError
\* shows a toast
SaleFails ==
    /\ IsPos
    /\ submitted.status = "pending"
    /\ PageEvent("onError", 0, "toast", NoArg)
    /\ submitted' = [submitted EXCEPT !.status = "error"]
    /\ UNCHANGED <<variant, recipeVars, posVars, clock, tz, dst, inflight, catalogue,
                   cart, twin>>

\* the refetch of the invalidated ["/api/products"] query arrives
Refetch ==
    /\ IsPos
    /\ submitted.stale
    /\ catalogue' = products
    /\ submitted' = [submitted EXCEPT !.stale = FALSE]
    /\ UNCHANGED <<variant, recipeVars, posVars, clock, tz, dst, inflight, cart,
                   twin, last>>

\* another client gives a product a new price: PUT /api/products/:id
OtherClientUpdates(id, update) ==
    /\ IsPos
    /\ id \in DOMAIN products
    /\ ParseFloat(products[id].price) # update.price
    /\ IF variant = "mem" THEN Mem_updateProduct(id, update)
       ELSE Db_updateProduct(id, update)
    /\ UNCHANGED <<variant, recipeVars, clock, tz, dst, inflight, catalogue, cart,
                   submitted, twin>>

-----------------------------------------------------------------------------
(* Specifications *)

SeqToMap(rows) == [id \in {rows[i].id : i \in 1 .. Len(rows)} |->
                      (CHOOSE r \in {rows[i] : i \in 1 .. Len(rows)} : r.id = id)]

\* nothing was called yet: the store is as the constructor left it
ConstructorCall == Call("constructor", 0, NoArg, "record")

\* the recipe calculator: new MemStorage() of server/storage.ts
InitRecipe ==
    /\ variant = "recipe"
    /\ ingredients = EmptyPatch
    /\ recipes = EmptyPatch
    /\ currentIngredientId = 1
    /\ currentRecipeId = 1
    /\ products = EmptyPatch
    /\ sales = EmptyPatch
    /\ costHistory = <<>>
    /\ currentProductId = 1
    /\ currentSaleId = 1
    /\ currentHistoryId = 1
    /\ clock = ClockStart
    /\ tz = 0
    /\ dst = NoDst
    /\ inflight = <<>>
    /\ catalogue = EmptyPatch
    /\ cart = <<>>
    /\ submitted = NoRequest
    /\ twin = NoTwin
    /\ last = ConstructorCall

\* the point of sale: new MemStorage() with its sample data, or
\* new DatabaseStorage() over empty tables, which it fills with its samples
InitPos ==
    /\ variant \in {"mem", "db"}
    /\ ingredients = EmptyPatch
    /\ recipes = EmptyPatch
    /\ currentIngredientId = 1
    /\ currentRecipeId = 1
    /\ products = IF variant = "mem" THEN SeqToMap(MemSampleProducts)
                  ELSE SeqToMap(DbSampleProducts)
    /\ \E age1, age2 \in SampleSaleAges :
          sales = IF variant = "mem" THEN SeqToMap(MemSampleSales(age1, age2))
                  ELSE EmptyPatch
    /\ costHistory = <<>>
    /\ currentProductId = FirstProductId
    /\ currentSaleId = FirstSaleId
    /\ currentHistoryId = 1
    /\ clock = ClockStart
    /\ tz = 0
    /\ dst = NoDst
    /\ inflight = <<>>
    /\ catalogue = EmptyPatch
    /\ cart = <<>>
    /\ submitted = NoRequest
    /\ twin = NoTwin
    /\ last = ConstructorCall

Init == InitRecipe \/ InitPos

NextRecipe ==
    \/ \E ins \in InsertIngredients : createIngredient(ins)
    \/ \E id \in IngredientIds, update \in IngredientPatches : updateIngredient(id, update)
    \/ \E id \in IngredientIds : deleteIngredient(id)
    \/ \E id \in RecipeIds : getRecipeWithDetails(id)
    \/ \E ins \in InsertRecipes : createRecipe(ins)
    \/ \E id \in RecipeIds, update \in RecipePatches : updateRecipe(id, update)
    \/ \E id \in RecipeIds : deleteRecipe(id)

NextPos ==
    \/ \E ins \in InsertProducts : createProduct(ins)
    \/ \E id \in ProductIds, update \in ProductPatches : updateProduct(id, update)
    \/ \E id \in ProductIds : deleteProduct(id)
    \/ \E ins \in InsertSales : createSale(ins)
    \/ \E id \in SaleIds, update \in SalePatches : updateSale(id, update)
    \/ \E id \in SaleIds : deleteSale(id)

Next == NextRecipe \/ NextPos

\* The reports.  The point of sale some time after its start: the sample
\* sales were deleted, one product was added, and up to MaxReportSales sales
\* were made, each of some age; then reports are read while a product that
\* was sold is repriced or deleted.

\* sale bodies: one sample product and the new product in two lines; all
\* six products, three of them in the same quantity; the new product and a
\* product id that was never stored
ReportItems1 ==
    <<SaleItem(2, 1, 4250), SaleItem(6, 2, 3500), SaleItem(6, 1, 3500)>>
ReportItems2 ==
    <<SaleItem(4, 12, 8500), SaleItem(1, 45, 3500), SaleItem(3, 20, 2750),
      SaleItem(5, 12, 6950), SaleItem(2, 12, 4250), SaleItem(6, 2, 3500)>>
ReportItems3 == <<SaleItem(6, 1, 3500), SaleItem(7, 1, 3500)>>
ReportBodies ==
    {[totalAmount |-> 14750, taxAmount |-> 1180, items |-> ReportItems1],
     [totalAmount |-> 455900, items |-> ReportItems2],
     [totalAmount |-> 7000, items |-> ReportItems3]}

\* how long ago a sale was made, in ticks: just now, one day, a day and a
\* half, six and a half days, thirty and a half days
ReportAges == {0, 2 * HalfDay, 3 * HalfDay, 13 * HalfDay, 61 * HalfDay}

\* the clock when the reports are read: midnight or noon UTC of a day late
\* enough for the oldest sale to have been made after the start
ReportClocks == {ClockStart + 62 * HalfDay, ClockStart + 63 * HalfDay}

\* offsets east of UTC: none, or twelve hours
TimeZones == {0, HalfDay}

\* the product the run added
ReportInsertProduct ==
    [category |-> "Food", price |-> 3500, cost |-> 1200, stock |-> 1, minStock |-> 5]

\* the products after createProduct(ReportInsertProduct) and the stock
\* loops of the sales made, from sale i on
RECURSIVE ReportStock(_, _, _)
ReportStock(bodies, i, ps) ==
    IF i > Len(bodies) THEN ps
    ELSE ReportStock(bodies, i + 1,
             IF variant = "mem" THEN MemStockLoop(bodies[i].items, 1, ps)
             ELSE DbStockLoop(bodies[i].items, 1, ps))

ReportProducts(bodies) ==
    LET ins == ReportInsertProduct
        p6 == IF variant = "mem"
              THEN Product(FirstProductId, ins.category, NumToString(ins.price),
                           NumToString(ins.cost), ins.stock, ins.minStock)
              ELSE Product(FirstProductId, ins.category,
                           DbDecimal(NumToString(ins.price)),
                           DbDecimal(NumToString(ins.cost)), ins.stock, ins.minStock)
        base == IF variant = "mem" THEN SeqToMap(MemSampleProducts)
                ELSE SeqToMap(DbSampleProducts)
    IN ReportStock(bodies, 1, MapSet(base, FirstProductId, p6))

ReportSales(bodies, ages) ==
    [id \in FirstSaleId .. (FirstSaleId + Len(bodies) - 1) |->
        LET i == id - FirstSaleId + 1
        IN IF variant = "mem" THEN MemSaleRecord(id, bodies[i], clock - ages[i])
           ELSE DbSaleRecord(id, bodies[i], clock - ages[i])]

InitReports ==
    /\ variant \in {"mem", "db"}
    /\ clock \in ReportClocks
    /\ tz \in TimeZones
    /\ dst = NoDst
    /\ inflight = <<>>
    /\ catalogue = EmptyPatch
    /\ cart = <<>>
    /\ submitted = NoRequest
    /\ twin = NoTwin
    /\ ingredients = EmptyPatch
    /\ recipes = EmptyPatch
    /\ currentIngredientId = 1
    /\ currentRecipeId = 1
    /\ \E n \in 0 .. MaxReportSales :
          \E bodies \in [1 .. n -> ReportBodies], ages \in [1 .. n -> ReportAges] :
              /\ \A i \in 1 .. (n - 1) : ages[i] >= ages[i + 1]
              /\ products = ReportProducts(bodies)
              /\ sales = ReportSales(bodies, ages)
              /\ currentSaleId = FirstSaleId + n
    /\ costHistory = <<>>
    /\ currentProductId = FirstProductId + 1
    /\ currentHistoryId = 1
    /\ last = ConstructorCall

ReportSaleIds == FirstSaleId .. (FirstSaleId + MaxReportSales)

\* the windows asked for: none given, one day, one week
AnalyticsArgs == {NoArg} \cup [days : {1, 7}]

NextReports ==
    \/ getInventoryAlerts
    \/ \E arg \in AnalyticsArgs : getSalesAnalytics(arg)
    \/ \E id \in ReportSaleIds : getSaleWithDetails(id)
    \/ \E update \in [cost : {750}] : updateProduct(2, update)
    \/ deleteProduct(2)

\* The handlers.  Request bodies: the valid ones, and bodies the schemas
\* reject (a required field left out, a number where a string is required,
\* a price or cost of 0, a negative stock).
NotAString == [number |-> 1010]
IngredientPostBodies == InsertIngredients \cup {EmptyPatch}
IngredientPutBodies ==
    IngredientPatches \cup {EmptyPatch} \cup [costPerUnit : {NotAString}]
ProductPostBodies ==
    InsertProducts \cup [category : {"Food"}, price : {3500}, cost : {1200}]
        \cup [category : {"Food"}, price : {0}, cost : {1200}]
        \cup [category : {"Food"}, price : {3500}]
ProductPutBodies == ProductPatches \cup [cost : {0}] \cup [stock : {-1}]

NextRest ==
    \/ \E id \in IngredientIds : GetIngredientRoute(id)
    \/ \E body \in IngredientPostBodies : PostIngredientRoute(body)
    \/ \E id \in IngredientIds, body \in IngredientPutBodies : PutIngredientRoute(id, body)
    \/ \E id \in IngredientIds : DeleteIngredientRoute(id)
    \/ \E id \in ProductIds : GetProductRoute(id)
    \/ \E body \in ProductPostBodies : PostProductRoute(body)
    \/ \E id \in ProductIds, body \in ProductPutBodies : PutProductRoute(id, body)
    \/ \E id \in ProductIds : DeleteProductRoute(id)

\* The catalogue after sales.  Sales were made, some of them naming a
\* product id before a product was stored under it; then products are
\* created, repriced and deleted while sales are read.
CatalogueClock == ClockStart + 62 * HalfDay
CataloguePrices == {5000}
CatalogueProductIds == {2, FirstProductId}

InitCatalogue ==
    /\ variant \in {"mem", "db"}
    /\ clock = CatalogueClock
    /\ tz = 0
    /\ dst = NoDst
    /\ inflight = <<>>
    /\ catalogue = EmptyPatch
    /\ cart = <<>>
    /\ submitted = NoRequest
    /\ twin = NoTwin
    /\ ingredients = EmptyPatch
    /\ recipes = EmptyPatch
    /\ currentIngredientId = 1
    /\ currentRecipeId = 1
    /\ \E n \in 0 .. MaxReportSales :
          \E bodies \in [1 .. n -> ReportBodies], ages \in [1 .. n -> ReportAges] :
              /\ \A i \in 1 .. (n - 1) : ages[i] >= ages[i + 1]
              /\ products = ReportStock(bodies, 1,
                                IF variant = "mem" THEN SeqToMap(MemSampleProducts)
                                ELSE SeqToMap(DbSampleProducts))
              /\ sales = ReportSales(bodies, ages)
              /\ currentSaleId = FirstSaleId + n
    /\ costHistory = <<>>
    /\ currentProductId = FirstProductId
    /\ currentHistoryId = 1
    /\ last = ConstructorCall

NextCatalogue ==
    \/ createProduct(ReportInsertProduct)
    \/ \E id \in CatalogueProductIds, update \in [price : CataloguePrices] :
          updateProduct(id, update)
    \/ \E update \in [cost : {750}] : updateProduct(2, update)
    \/ deleteProduct(2)
    \/ \E id \in ReportSaleIds : getSaleWithDetails(id)
    \/ getSalesAnalytics(NoArg)

\* The recipe handlers.  Bodies with servings of 1, 0 and -1, and bodies
\* the schema rejects (no servings, an ingredient line with quantity 0).
RestServings == {1, 0, -1}
RecipePostBodies ==
    [servings : RestServings, ingredients : RecipeIngredientLists]
        \cup [ingredients : RecipeIngredientLists]
        \cup [servings : {1}, ingredients : {<<Item(1, 0)>>}]
RecipePutBodies ==
    [servings : RestServings] \cup [ingredients : {<<Item(1, 0)>>}]

NextRecipeRest ==
    \/ \E ins \in InsertIngredients : createIngredient(ins)
    \/ \E id \in RecipeIds : GetRecipeRoute(id)
    \/ \E body \in RecipePostBodies : PostRecipeRoute(body)
    \/ \E id \in RecipeIds, body \in RecipePutBodies : PutRecipeRoute(id, body)

\* Sales in flight: createSale requests arrive while others stand at an
\* await.
RequestNumbers == 1 .. MaxRequests

\* requests of several clients: creates of an ingredient, a product and a
\* sale, and updates of a sample product that change its cost or its price
RequestPatches == [cost : CostValues] \cup [price : CataloguePrices]
RequestProductIds == {2}
NextRequests ==
    \/ \E ins \in InsertIngredients : ArriveCreateIngredient(ins)
    \/ \E ins \in InsertProducts : ArriveCreateProduct(ins)
    \/ \E ins \in InsertSales : ArriveCreateSale(ins)
    \/ \E id \in RequestProductIds, update \in RequestPatches :
          ArriveUpdateProduct(id, update)
    \/ \E r \in RequestNumbers : r \in Requests /\ DbProductInsert(r)
    \/ \E r \in RequestNumbers : r \in Requests /\ DbSaleInsert(r)
    \/ \E r \in RequestNumbers : r \in Requests /\ DbSaleRead(r)
    \/ \E r \in RequestNumbers : r \in Requests /\ DbSaleWrite(r)
    \/ \E r \in RequestNumbers : r \in Requests /\ MemUpdateSet(r)
    \/ \E r \in RequestNumbers : r \in Requests /\ DbUpdateGet(r)
    \/ \E r \in RequestNumbers : r \in Requests /\ DbUpdateHistory(r)
    \/ \E r \in RequestNumbers : r \in Requests /\ DbUpdateWrite(r)

NextSales ==
    \/ \E ins \in InsertSales : ArriveCreateSale(ins)
    \/ \E r \in RequestNumbers : r \in Requests /\ DbSaleInsert(r)
    \/ \E r \in RequestNumbers : r \in Requests /\ DbSaleRead(r)
    \/ \E r \in RequestNumbers : r \in Requests /\ DbSaleWrite(r)

\* both servers hold the sample products and no sale, the two sample sales
\* of the in-memory server deleted and two sales inserted and deleted in
\* the relational one
TwinFirstSaleId == Len(MemSampleSales(0, 0)) + 1
TwinSaleIds == {TwinFirstSaleId}
InitTwins ==
    /\ variant = "mem"
    /\ ingredients = EmptyPatch
    /\ recipes = EmptyPatch
    /\ currentIngredientId = 1
    /\ currentRecipeId = 1
    /\ products = SeqToMap(MemSampleProducts)
    /\ sales = EmptyPatch
    /\ costHistory = <<>>
    /\ currentProductId = FirstProductId
    /\ currentSaleId = TwinFirstSaleId
    /\ currentHistoryId = 1
    /\ clock = ClockStart
    /\ tz = 0
    /\ dst = NoDst
    /\ inflight = <<>>
    /\ catalogue = EmptyPatch
    /\ cart = <<>>
    /\ submitted = NoRequest
    /\ twin = [phase |-> "first", n |-> 0, call |-> ConstructorCall,
               store |-> [products |-> SeqToMap(DbSampleProducts),
                          sales |-> EmptyPatch, costHistory |-> <<>>,
                          currentProductId |-> FirstProductId,
                          currentSaleId |-> TwinFirstSaleId,
                          currentHistoryId |-> 1]]
    /\ last = ConstructorCall

NextTwins ==
    \/ \E ins \in InsertProducts :
          /\ currentProductId < FirstProductId + MaxNewProducts
          /\ TwinFirst("createProduct", 0, ins)
    \/ \E id \in RequestProductIds, update \in ProductPatches :
          TwinFirst("updateProduct", id, update)
    \/ \E id \in RequestProductIds : TwinFirst("deleteProduct", id, NoArg)
    \/ \E ins \in InsertSales :
          /\ currentSaleId < TwinFirstSaleId + MaxNewSales
          /\ TwinFirst("createSale", 0, ins)
    \/ \E id \in TwinSaleIds, update \in SalePatches : TwinFirst("updateSale", id, update)
    \/ \E id \in TwinSaleIds : TwinFirst("deleteSale", id, NoArg)
    \/ TwinSecond
    \/ TwinSwitch


\* A server in a zone with daylight saving.  The clocks change at 02:00
\* local time of the switch day, one hour forward or back; the reports are
\* read at noon UTC of the day after it, or at the midnight UTC that ends
\* that day.  Sales were made just now, 13, 14 and 15 hours ago (around the
\* local midnight that follows the switch day), a day and a half ago and
\* eight days ago.
SwitchDay == ClockStart \div TicksPerDay + 9
SwitchAt(offset) == SwitchDay * TicksPerDay + 2 * Hour - offset
DaylightClocks ==
    {(SwitchDay + 1) * TicksPerDay + HalfDay, (SwitchDay + 2) * TicksPerDay}
DaylightZones == {0, Hour}
DaylightShifts == {0, Hour, -Hour}
DaylightAges == {0, 13 * Hour, 14 * Hour, 15 * Hour, 3 * HalfDay, 8 * TicksPerDay}

InitDaylight ==
    /\ variant \in {"mem", "db"}
    /\ clock \in DaylightClocks
    /\ tz \in DaylightZones
    /\ \E shift \in DaylightShifts :
          dst = IF shift = 0 THEN NoDst ELSE [at |-> SwitchAt(tz), shift |-> shift]
    /\ inflight = <<>>
    /\ catalogue = EmptyPatch
    /\ cart = <<>>
    /\ submitted = NoRequest
    /\ twin = NoTwin
    /\ ingredients = EmptyPatch
    /\ recipes = EmptyPatch
    /\ currentIngredientId = 1
    /\ currentRecipeId = 1
    /\ \E n \in 0 .. MaxReportSales :
          \E bodies \in [1 .. n -> ReportBodies], ages \in [1 .. n -> DaylightAges] :
              /\ \A i \in 1 .. (n - 1) : ages[i] >= ages[i + 1]
              /\ products = ReportProducts(bodies)
              /\ sales = ReportSales(bodies, ages)
              /\ currentSaleId = FirstSaleId + n
    /\ costHistory = <<>>
    /\ currentProductId = FirstProductId + 1
    /\ currentHistoryId = 1
    /\ last = ConstructorCall

NextDaylight ==
    \/ \E arg \in AnalyticsArgs : getSalesAnalytics(arg)
    \/ deleteProduct(2)

\* the page open on a server that just started: the query has fetched the
\* products, the cart is empty.  The products clicked, and the price
\* another client gives to one of them.
CartProductIds == {2, 4}
CartPatches == [price : CataloguePrices]
InitCart ==
    /\ variant \in {"mem", "db"}
    /\ ingredients = EmptyPatch
    /\ recipes = EmptyPatch
    /\ currentIngredientId = 1
    /\ currentRecipeId = 1
    /\ products = IF variant = "mem" THEN SeqToMap(MemSampleProducts)
                  ELSE SeqToMap(DbSampleProducts)
    /\ sales = IF variant = "mem" THEN SeqToMap(MemSampleSales(HalfDay, HalfDay))
               ELSE EmptyPatch
    /\ costHistory = <<>>
    /\ currentProductId = FirstProductId
    /\ currentSaleId = FirstSaleId
    /\ currentHistoryId = 1
    /\ clock = ClockStart
    /\ tz = 0
    /\ dst = NoDst
    /\ inflight = <<>>
    /\ catalogue = products
    /\ cart = <<>>
    /\ submitted = NoRequest
    /\ twin = NoTwin
    /\ last = ConstructorCall

NextCart ==
    \/ \E pid \in CartProductIds : addToCart(pid)
    \/ \E pid \in CartProductIds, step \in {-1, 1} : updateQuantity(pid, step)
    \/ \E pid \in CartProductIds : removeFromCart(pid)
    \/ handleCheckout
    \/ SaleSucceeds
    \/ SaleFails
    \/ Refetch
    \/ \E update \in CartPatches : OtherClientUpdates(2, update)

SpecRecipe == InitRecipe /\ [][NextRecipe]_vars
SpecPos == InitPos /\ [][NextPos]_vars
Spec == Init /\ [][Next]_vars
SpecRest == Init /\ [][NextRest]_vars
SpecSales == InitPos /\ [][NextSales]_vars
SpecRequests == Init /\ [][NextRequests]_vars
SpecTwins == InitTwins /\ [][NextTwins]_vars
SpecDaylight == InitDaylight /\ [][NextDaylight]_vars
SpecCart == InitCart /\ [][NextCart]_vars
SpecRecipeRest == InitRecipe /\ [][NextRecipeRest]_vars
SpecCatalogue == InitCatalogue /\ [][NextCatalogue]_vars
SpecReports == InitReports /\ [][NextReports]_vars

-----------------------------------------------------------------------------
(* Properties *)

Pre == last.pre

RECURSIVE SumQuantity(_, _)
SumQuantity(items, I) ==
    IF I = {} THEN 0
    ELSE LET i == CHOOSE j \in I : TRUE
         IN items[i].quantity + SumQuantity(items, I \ {i})

\* the quantity a sale body sells of product p, over all its lines
QtySold(items, p) ==
    SumQuantity(items, {i \in 1 .. Len(items) : items[i].productId = p})

RECURSIVE SumLineCost(_, _, _)
SumLineCost(items, ings, I) ==
    IF I = {} THEN 0
    ELSE LET i == CHOOSE j \in I : TRUE
         IN Mul(ParseFloat(ings[items[i].ingredientId].costPerUnit), items[i].quantity)
                + SumLineCost(items, ings, I \ {i})

\* sum of costPerUnit * quantity over the lines whose ingredient is in ings
ResolvedCost(items, ings) ==
    SumLineCost(items, ings,
                {i \in 1 .. Len(items) : items[i].ingredientId \in DOMAIN ings})

\* text is n rounded to the nearest hundredth (either way on a tie), written
\* with two fractional digits
IsRounded2(text, n) ==
    /\ text.dp = 2
    /\ text.m % 10 = 0
    /\ text.m - n >= -5
    /\ text.m - n <= 5

\* C1: after createSale(s), every product that existed when the call started
\* has its stock before the call less the quantities of all lines of s for
\* that product (repeated lines all count), and is otherwise as it was;
\* products s does not mention keep their stock. Both stores.
C1_StockAfterCreateSale ==
    last.op = "createSale" =>
        /\ DOMAIN products = DOMAIN Pre.products
        /\ \A p \in DOMAIN Pre.products :
              products[p] = [Pre.products[p] EXCEPT
                                !.stock = @ - QtySold(last.arg.items, p)]

\* a sale with two lines for one stored product has been created
C1_Witness ==
    /\ last.op = "createSale"
    /\ \E i, j \in 1 .. Len(last.arg.items) :
          /\ i < j
          /\ last.arg.items[i].productId = last.arg.items[j].productId
          /\ last.arg.items[i].productId \in DOMAIN Pre.products
    /\ \E p \in DOMAIN Pre.products : QtySold(last.arg.items, p) = 0

\* the call of `last` stored a recipe total computed from its ingredient list
Recomputed ==
    \/ last.op = "createRecipe"
    \/ /\ last.op = "updateRecipe"
       /\ last.id \in DOMAIN Pre.recipes
       /\ "ingredients" \in DOMAIN last.arg

\* C2: createRecipe, and updateRecipe with ingredients in the patch, store
\* totalCost = the sum of costPerUnit * quantity over the supplied lines whose
\* ingredient exists at call time, rounded to two decimals; lines whose
\* ingredient does not exist add nothing and raise no error.
C2_TotalCostOnRecompute ==
    Recomputed =>
        /\ last.ret = "record"
        /\ last.id \in DOMAIN recipes
        /\ recipes[last.id].ingredients = last.arg.ingredients
        /\ IsRounded2(recipes[last.id].totalCost,
                      ResolvedCost(last.arg.ingredients, Pre.ingredients))

\* a total was computed over a list with a missing and a stored ingredient,
\* and the sum had to be rounded
C2_Witness ==
    /\ Recomputed
    /\ \E i \in 1 .. Len(last.arg.ingredients) :
          last.arg.ingredients[i].ingredientId \notin DOMAIN Pre.ingredients
    /\ \E i \in 1 .. Len(last.arg.ingredients) :
          last.arg.ingredients[i].ingredientId \in DOMAIN Pre.ingredients
    /\ ResolvedCost(last.arg.ingredients, Pre.ingredients) % 10 \notin {0, 5}

\* the value a cost is stored with: the decimal column of the database store
\* keeps two fractional digits, the in-memory store the number's own text
StoredCostText(n) == IF variant = "db" THEN DbDecimal(NumToString(n)) ELSE NumToString(n)

\* the last call was updateProduct on a stored product with a cost whose
\* value differs from the stored one
CostValueChanged ==
    /\ last.op = "updateProduct"
    /\ last.id \in DOMAIN Pre.products
    /\ "cost" \in DOMAIN last.arg
    /\ last.arg.cost # ParseFloat(Pre.products[last.id].cost)

\* C3: a cost-history row is appended when, and only when, updateProduct
\* changes a stored product's cost: one row with the product's id, the cost
\* stored before as oldCost, the new cost as newCost and reason
\* "Manual update"; createProduct, and updateProduct without a cost or with
\* a cost equal in value to the stored one, append nothing.
C3_HistoryRowIffCostChanged ==
    IF CostValueChanged
    THEN /\ Len(costHistory) = Len(Pre.costHistory) + 1
         /\ SubSeq(costHistory, 1, Len(Pre.costHistory)) = Pre.costHistory
         /\ LET row == costHistory[Len(costHistory)]
            IN /\ row.productId = last.id
               /\ row.oldCost = Pre.products[last.id].cost
               /\ row.newCost = StoredCostText(last.arg.cost)
               /\ row.reason = "Manual update"
    ELSE last.op \in {"createProduct", "updateProduct"} =>
             costHistory = Pre.costHistory

\* the same, for the in-memory store alone
C3_MemHistoryRowIffCostChanged == variant = "mem" => C3_HistoryRowIffCostChanged

\* the part of C3 that holds in both stores: a cost that differs in value
\* appends exactly the one row described
C3_RowOnChangedCost ==
    CostValueChanged =>
        /\ Len(costHistory) = Len(Pre.costHistory) + 1
        /\ SubSeq(costHistory, 1, Len(Pre.costHistory)) = Pre.costHistory
        /\ costHistory[Len(costHistory)].productId = last.id
        /\ costHistory[Len(costHistory)].oldCost = Pre.products[last.id].cost
        /\ costHistory[Len(costHistory)].newCost = StoredCostText(last.arg.cost)
        /\ costHistory[Len(costHistory)].reason = "Manual update"

\* C4: updateRecipe with a patch that has no ingredients leaves the stored
\* totalCost and ingredients list exactly as they were, whatever happened to
\* the referenced ingredients since the total was computed.
C4_NoIngredientsKeepsTotal ==
    (/\ last.op = "updateRecipe"
     /\ last.id \in DOMAIN Pre.recipes
     /\ "ingredients" \notin DOMAIN last.arg) =>
        /\ recipes[last.id].totalCost = Pre.recipes[last.id].totalCost
        /\ recipes[last.id].ingredients = Pre.recipes[last.id].ingredients

\* the stored total of recipe r is not what its ingredients cost now
StaleTotal(r) ==
    r.totalCost # ToFixed2(ResolvedCost(r.ingredients, ingredients))

\* a patch without ingredients changed the servings of a recipe whose stored
\* total is no longer what its ingredients cost
C4_Witness ==
    /\ last.op = "updateRecipe"
    /\ last.id \in DOMAIN Pre.recipes
    /\ "ingredients" \notin DOMAIN last.arg
    /\ recipes[last.id].servings # Pre.recipes[last.id].servings
    /\ StaleTotal(recipes[last.id])

\* C5: createIngredient, updateIngredient and deleteIngredient change no
\* stored recipe, so every stored totalCost stays the value computed by the
\* last createRecipe or updateRecipe with ingredients.
C5_IngredientOpsKeepRecipes ==
    last.op \in {"createIngredient", "updateIngredient", "deleteIngredient"} =>
        /\ recipes = Pre.recipes
        /\ currentRecipeId = Pre.currentRecipeId

\* an ingredient used by a stored recipe was changed or deleted, and the
\* recipe's stored total is not what its ingredients cost now
C5_Witness ==
    /\ last.op \in {"updateIngredient", "deleteIngredient"}
    /\ ingredients # Pre.ingredients
    /\ \E r \in DOMAIN recipes :
          /\ \E i \in 1 .. Len(recipes[r].ingredients) :
                recipes[r].ingredients[i].ingredientId = last.id
          /\ StaleTotal(recipes[r])

\* the lines of a recipe whose ingredient exists now, in recipe order
ResolvingLines(r) ==
    SelectSeq(r.ingredients, LAMBDA ri : ri.ingredientId \in DOMAIN ingredients)

\* C6: for a stored recipe getRecipeWithDetails returns the recipe with, in
\* recipe order, one entry {ingredient, quantity, cost} per line whose
\* ingredient still exists, cost being the current costPerUnit * quantity,
\* no entry for the others, and costPerServing = stored totalCost / servings;
\* it changes nothing.
C6_DetailsSkipMissing ==
    (last.op = "getRecipeWithDetails" /\ last.id \in DOMAIN recipes) =>
        LET r == recipes[last.id]
            kept == ResolvingLines(r)
            d == last.out.val
        IN /\ last.ret = "record"
           /\ last.out.some
           /\ Snapshot = Pre
           /\ \A f \in DOMAIN r : d[f] = r[f]
           /\ Len(d.ingredientDetails) = Len(kept)
           /\ \A i \in 1 .. Len(kept) :
                 /\ d.ingredientDetails[i].ingredient = ingredients[kept[i].ingredientId]
                 /\ d.ingredientDetails[i].quantity = kept[i].quantity
                 /\ d.ingredientDetails[i].cost * 1000 =
                        kept[i].quantity
                            * ingredients[kept[i].ingredientId].costPerUnit.m
           /\ d.costPerServing.num = r.totalCost.m
           /\ d.costPerServing.den = r.servings

\* the details of a recipe were read while one of its ingredients was gone,
\* another was there, and the stored total still counted the missing one
C6_Witness ==
    /\ last.op = "getRecipeWithDetails"
    /\ last.id \in DOMAIN recipes
    /\ Len(ResolvingLines(recipes[last.id])) > 0
    /\ Len(ResolvingLines(recipes[last.id])) < Len(recipes[last.id].ingredients)
    /\ StaleTotal(recipes[last.id])

\* C7: deleteSale and updateSale, also one that replaces the items, leave
\* every product as it was: the stock taken at sale creation is neither
\* given back nor taken again.
C7_SaleEditKeepsStock ==
    last.op \in {"deleteSale", "updateSale"} =>
        /\ products = Pre.products
        /\ currentProductId = Pre.currentProductId

\* a stored sale with a line for a stored product was deleted, or had its
\* items replaced
C7_Witness ==
    /\ last.op \in {"deleteSale", "updateSale"}
    /\ last.id \in DOMAIN Pre.sales
    /\ \E i \in 1 .. Len(Pre.sales[last.id].items) :
          Pre.sales[last.id].items[i].productId \in DOMAIN products
    /\ \/ last.op = "deleteSale" /\ last.ret = "true"
       \/ /\ "items" \in DOMAIN last.arg
          /\ last.arg.items # Pre.sales[last.id].items

\* C8: createSale always succeeds and stores the sale, whatever the stock:
\* a product sold beyond its stock ends below zero, by the full amount.
C8_NoStockCheck ==
    last.op = "createSale" =>
        /\ last.ret = "record"
        /\ last.id \in DOMAIN sales
        /\ sales[last.id].items = last.arg.items
        /\ \A p \in DOMAIN Pre.products :
              QtySold(last.arg.items, p) > Pre.products[p].stock =>
                  /\ p \in DOMAIN products
                  /\ products[p].stock < 0
                  /\ products[p].stock + QtySold(last.arg.items, p)
                         = Pre.products[p].stock

\* a sale sold more of a product than was in stock
C8_Witness ==
    /\ last.op = "createSale"
    /\ last.ret = "record"
    /\ \E p \in DOMAIN Pre.products :
          /\ Pre.products[p].stock >= 0
          /\ products[p].stock < 0

\* the entity types with their map and next-id counter, now and before the
\* last call
EntityTypes == {"ingredient", "recipe", "product", "sale"}
IdsOf(t, st) ==
    CASE t = "ingredient" -> DOMAIN st.ingredients
      [] t = "recipe" -> DOMAIN st.recipes
      [] t = "product" -> DOMAIN st.products
      [] t = "sale" -> DOMAIN st.sales
CounterOf(t, st) ==
    CASE t = "ingredient" -> st.currentIngredientId
      [] t = "recipe" -> st.currentRecipeId
      [] t = "product" -> st.currentProductId
      [] t = "sale" -> st.currentSaleId
MapOf(t, st) ==
    CASE t = "ingredient" -> st.ingredients
      [] t = "recipe" -> st.recipes
      [] t = "product" -> st.products
      [] t = "sale" -> st.sales
CreateOp(t) ==
    CASE t = "ingredient" -> "createIngredient"
      [] t = "recipe" -> "createRecipe"
      [] t = "product" -> "createProduct"
      [] t = "sale" -> "createSale"
DeleteOp(t) ==
    CASE t = "ingredient" -> "deleteIngredient"
      [] t = "recipe" -> "deleteRecipe"
      [] t = "product" -> "deleteProduct"
      [] t = "sale" -> "deleteSale"

\* C9: for every entity type the ids create assigns are strictly increasing
\* and never repeat: every stored id is below the type's next-id counter,
\* the counter never goes back, and create assigns the counter's value, which
\* is above every id stored or assigned before, deleted ones included.
C9_IdsIncreaseNeverReused ==
    \A t \in EntityTypes :
        /\ \A id \in IdsOf(t, Snapshot) : id < CounterOf(t, Snapshot)
        /\ CounterOf(t, Snapshot) >= CounterOf(t, Pre)
        /\ last.op = CreateOp(t) =>
              /\ last.id = CounterOf(t, Pre)
              /\ CounterOf(t, Snapshot) = last.id + 1
              /\ last.id \notin IdsOf(t, Pre)
              /\ IdsOf(t, Snapshot) = IdsOf(t, Pre) \cup {last.id}
              /\ MapOf(t, Snapshot)[last.id].id = last.id

\* an entity was created after one with a smaller id had been deleted
C9_Witness ==
    \E t \in EntityTypes :
        /\ last.op = CreateOp(t)
        /\ \E id \in 1 .. (last.id - 1) : id \notin IdsOf(t, Snapshot)

UpdateOp(t) ==
    CASE t = "ingredient" -> "updateIngredient"
      [] t = "recipe" -> "updateRecipe"
      [] t = "product" -> "updateProduct"
      [] t = "sale" -> "updateSale"

\* the last call was an update of an entity of type t with an id that was
\* stored (or, with stored = FALSE, was not stored) when the call started
UpdateOf(t, stored) ==
    /\ last.op = UpdateOp(t)
    /\ (last.id \in IdsOf(t, Pre)) = stored

NumericTextFields == {"price", "cost", "totalAmount", "taxAmount"}

\* the stored field f has the value the patch supplied
HasSuppliedValue(f, stored, supplied) ==
    IF f \in NumericTextFields THEN ParseFloat(stored) = supplied
    ELSE stored = supplied

\* C12: update(id, patch) of a stored entity is a partial merge: every field
\* of the patch is stored with the supplied value, a supplied 0 included,
\* and every other field (the derived totalCost of a recipe aside) and the
\* id keep their values.
C12_UpdateIsPartialMerge ==
    \A t \in EntityTypes :
        UpdateOf(t, TRUE) =>
            LET old == MapOf(t, Pre)[last.id]
                new == MapOf(t, Snapshot)[last.id]
            IN /\ last.ret = "record"
               /\ new.id = last.id
               /\ DOMAIN new = DOMAIN old
               /\ \A f \in DOMAIN last.arg : HasSuppliedValue(f, new[f], last.arg[f])
               /\ \A f \in DOMAIN old \ DOMAIN last.arg :
                     f # "totalCost" => new[f] = old[f]

\* the same, for the database store of the point of sale alone
C12_DbUpdateIsPartialMerge == variant = "db" => C12_UpdateIsPartialMerge

\* the entries of a sequence that satisfy Test
Matching(seq, Test(_)) == {i \in 1 .. Len(seq) : Test(seq[i])}

\* the last call read the inventory alerts
AlertsRead == last.op = "getInventoryAlerts"

\* C13: getInventoryAlerts returns one alert for each product whose stock
\* is at or below its minStock and none for any other product; the alert
\* carries the product's stock and minStock and is "critical" when the
\* stock is at most half of minStock and "low" otherwise, zero and negative
\* stock included.
C13_AlertsAtOrBelowMinStock ==
    AlertsRead =>
        LET alerts == last.out.val
        IN /\ \A i \in 1 .. Len(alerts) : alerts[i].productId \in DOMAIN products
           /\ \A id \in DOMAIN products :
                 LET p == products[id]
                     mine == Matching(alerts, LAMBDA a : a.productId = id)
                 IN IF p.stock <= p.minStock
                    THEN /\ Cardinality(mine) = 1
                         /\ \A i \in mine :
                               /\ alerts[i].currentStock = p.stock
                               /\ alerts[i].minStock = p.minStock
                               /\ alerts[i].severity =
                                     IF 2 * p.stock <= p.minStock THEN "critical"
                                     ELSE "low"
                    ELSE mine = {}

\* the alerts were read with a product below zero, a product exactly at its
\* minStock, a product exactly at half of it, and a product above it
C13_Witness ==
    /\ AlertsRead
    /\ \E id \in DOMAIN products : products[id].stock < 0
    /\ \E id \in DOMAIN products : products[id].stock = products[id].minStock
    /\ \E id \in DOMAIN products : 2 * products[id].stock = products[id].minStock
    /\ \E id \in DOMAIN products : products[id].stock > products[id].minStock

\* the last call read the analytics; its window and the stored sales in it
AnalyticsRead == last.op = "getSalesAnalytics"
Analytics == last.out.val
Window == DaysOf(last.arg)
WindowSaleIds ==
    {id \in DOMAIN sales : sales[id].createdAt >= clock - Window * TicksPerDay}

\* C14: getSalesAnalytics on a store with no sale in the window returns
\* totalSales 0, totalProfit 0, averageOrderValue 0 (a number, not the
\* result of dividing by zero), no top-selling product, no category and a
\* trend of exactly seven entries whose sales and profit are 0.
C14_EmptyWindowIsAllZero ==
    (AnalyticsRead /\ WindowSaleIds = {}) =>
        /\ Analytics.totalSales = 0
        /\ Analytics.totalProfit = 0
        /\ Analytics.averageOrderValue.num = 0
        /\ Analytics.averageOrderValue.den # 0
        /\ Analytics.topSellingProducts = <<>>
        /\ DOMAIN Analytics.salesByCategory = {}
        /\ Len(Analytics.salesTrend) = 7
        /\ \A k \in 1 .. Len(Analytics.salesTrend) :
              /\ Analytics.salesTrend[k].sales = 0
              /\ Analytics.salesTrend[k].profit = 0

\* the analytics were read over a window that holds none of the stored
\* sales, one of them within the seven days of the trend
C14_Witness ==
    /\ AnalyticsRead
    /\ WindowSaleIds = {}
    /\ \E id \in DOMAIN sales : sales[id].createdAt > clock - 7 * TicksPerDay

\* the sum of the values of a function
RECURSIVE SumFn(_)
SumFn(f) ==
    IF DOMAIN f = {} THEN 0
    ELSE LET x == CHOOSE x \in DOMAIN f : TRUE
         IN f[x] + SumFn([y \in DOMAIN f \ {x} |-> f[y]])

\* the items of a stored sale whose product is stored now, and what they
\* add up to: their totals, and their totals less the product's cost now
ResolvableItems(id) ==
    SelectSeq(sales[id].items, LAMBDA item : item.productId \in DOMAIN products)
ResolvableTotal(id) ==
    Sum(MapSeq(ResolvableItems(id), LAMBDA item : item.total))
ResolvableProfit(id) ==
    Sum(MapSeq(ResolvableItems(id), LAMBDA item :
            item.total - ParseFloat(products[item.productId].cost) * item.quantity))

\* the stored sales of the window that fall in the seven days of the trend
TrendSaleIds ==
    {id \in WindowSaleIds :
        LocalDay(sales[id].createdAt) \in (LocalDay(clock) - 6) .. LocalDay(clock)}

\* C15: a sale that references a product no longer stored is still
\* readable.  getSaleWithDetails returns it with the items of the missing
\* product left out of itemDetails; in getSalesAnalytics those items add
\* nothing to topSellingProducts, salesByCategory and totalProfit, while the
\* sale's whole totalAmount counts in totalSales, averageOrderValue and the
\* trend.
C15_MissingProductItemsDropped ==
    /\ (last.op = "getSaleWithDetails" /\ last.id \in DOMAIN sales) =>
          /\ last.ret = "record"
          /\ last.out.val.totalAmount = sales[last.id].totalAmount
          /\ last.out.val.items = sales[last.id].items
          /\ last.out.val.itemDetails =
                MapSeq(ResolvableItems(last.id), LAMBDA item :
                    [product |-> products[item.productId],
                     quantity |-> item.quantity, price |-> item.price,
                     total |-> item.total])
    /\ AnalyticsRead =>
          /\ last.ret = "record"
          /\ Analytics.totalSales =
                SumFn([id \in WindowSaleIds |-> ParseFloat(sales[id].totalAmount)])
          /\ WindowSaleIds # {} =>
                /\ Analytics.averageOrderValue.num = Analytics.totalSales
                /\ Analytics.averageOrderValue.den = Cardinality(WindowSaleIds)
          /\ SumFn([k \in 1 .. Len(Analytics.salesTrend) |->
                       Analytics.salesTrend[k].sales]) =
                SumFn([id \in TrendSaleIds |-> ParseFloat(sales[id].totalAmount)])
          /\ Analytics.totalProfit =
                SumFn([id \in WindowSaleIds |-> ResolvableProfit(id)])
          /\ SumFn(Analytics.salesByCategory) =
                SumFn([id \in WindowSaleIds |-> ResolvableTotal(id)])
          /\ \A k \in 1 .. Len(Analytics.topSellingProducts) :
                Analytics.topSellingProducts[k].product.id \in DOMAIN products

\* the products that were stored once and are not stored now
DeletedProducts == (1 .. (currentProductId - 1)) \ DOMAIN products

\* the analytics were read over a window with a sale, made within the trend
\* days, that has an item of a deleted product and an item of a stored one
C15_Witness ==
    /\ AnalyticsRead
    /\ \E id \in TrendSaleIds :
          /\ \E i \in 1 .. Len(sales[id].items) :
                sales[id].items[i].productId \in DeletedProducts
          /\ ResolvableItems(id) # <<>>

\* the stored sales of the window made on the local day `day`
DaySaleIds(day) == {id \in WindowSaleIds : LocalDay(sales[id].createdAt) = day}

\* C16: totalProfit, and the profit of each trend entry, is the sum over the
\* resolvable items of the sales of the window (of the window and the day)
\* of item.total - cost * quantity, with the cost the product has when the
\* analytics are read: after updateProduct changed a cost, sales made
\* before the change are reported with the new cost.
C16_ProfitUsesCurrentCost ==
    AnalyticsRead =>
        /\ Analytics.totalProfit =
              SumFn([id \in WindowSaleIds |-> ResolvableProfit(id)])
        /\ \A k \in 1 .. Len(Analytics.salesTrend) :
              Analytics.salesTrend[k].profit =
                  SumFn([id \in DaySaleIds(LocalDay(clock) - (7 - k)) |->
                            ResolvableProfit(id)])

\* the analytics were read after the cost of a product changed that a sale
\* of the window, made within the trend days, had sold in a quantity above 1
C16_Witness ==
    /\ AnalyticsRead
    /\ \E h \in 1 .. Len(costHistory) :
          LET p == costHistory[h].productId
          IN /\ p \in DOMAIN products
             /\ ParseFloat(products[p].cost) # ParseFloat(costHistory[h].oldCost)
             /\ \E id \in TrendSaleIds :
                   \E i \in 1 .. Len(sales[id].items) :
                       /\ sales[id].items[i].productId = p
                       /\ sales[id].items[i].quantity > 1

\* the item details of the sales of the window, in the order the store
\* lists the sales (oldest first in memory, newest first in the database)
WindowItems ==
    ItemsFrom(SelectSeq(MapSeq(SalesList, WithDetails),
                        LAMBDA sale : sale.id \in WindowSaleIds), 1)

\* the stored products sold in the window; what was sold of one of them;
\* where it first occurs
SoldProducts == {WindowItems[i].product.id : i \in 1 .. Len(WindowItems)}
ItemsOf(p) == {i \in 1 .. Len(WindowItems) : WindowItems[i].product.id = p}
QuantityOf(p) == SumFn([i \in ItemsOf(p) |-> WindowItems[i].quantity])
TotalOf(p) == SumFn([i \in ItemsOf(p) |-> WindowItems[i].total])
FirstOf(p) == CHOOSE i \in ItemsOf(p) : \A j \in ItemsOf(p) : i <= j

\* C17: topSellingProducts has one entry per stored product sold in the
\* window, at most five of them, each with the summed quantity and summed
\* item total of its product, most sold first; entries with equal quantity
\* stand in the order of their first occurrence in the sales of the window,
\* and no product left out sold more than a listed one.
C17_TopSellingProducts ==
    AnalyticsRead =>
        LET top == Analytics.topSellingProducts
            listed == {top[k].product.id : k \in 1 .. Len(top)}
        IN /\ Len(top) = (IF Cardinality(SoldProducts) < 5
                          THEN Cardinality(SoldProducts) ELSE 5)
           /\ Cardinality(listed) = Len(top)
           /\ listed \subseteq SoldProducts
           /\ \A k \in 1 .. Len(top) :
                 /\ top[k].product = products[top[k].product.id]
                 /\ top[k].totalSold = QuantityOf(top[k].product.id)
                 /\ top[k].revenue = TotalOf(top[k].product.id)
           /\ \A k \in 1 .. (Len(top) - 1) :
                 \/ top[k].totalSold > top[k + 1].totalSold
                 \/ /\ top[k].totalSold = top[k + 1].totalSold
                    /\ FirstOf(top[k].product.id) < FirstOf(top[k + 1].product.id)
           /\ \A p \in SoldProducts \ listed :
                 \A k \in 1 .. Len(top) : QuantityOf(p) <= top[k].totalSold

\* the analytics were read over a window in which six stored products were
\* sold, one of them in two sales, and two listed neighbours sold the same
C17_Witness ==
    /\ AnalyticsRead
    /\ Cardinality(SoldProducts) > 5
    /\ \E p \in SoldProducts : Cardinality(ItemsOf(p)) > 2
    /\ \E k \in 1 .. (Len(Analytics.topSellingProducts) - 1) :
          Analytics.topSellingProducts[k].totalSold =
              Analytics.topSellingProducts[k + 1].totalSold

\* the stored sales made on the local day `day`, in the window or not
StoredDaySaleIds(day) == {id \in DOMAIN sales : LocalDay(sales[id].createdAt) = day}

\* the local day the k-th trend entry stands for: today - 6 first, today last
TrendDay(k) == LocalDay(clock) - (7 - k)

\* C18: for every window of at least one day getSalesAnalytics returns
\* exactly seven trend entries, one per local day from today - 6 to today,
\* oldest first, and the entry of a day reports the summed totalAmount and
\* the summed profit of the stored sales made on that day.
C18_TrendCountsStoredSales ==
    (AnalyticsRead /\ Window >= 1) =>
        /\ Len(Analytics.salesTrend) = 7
        /\ \A k \in 1 .. (Len(Analytics.salesTrend) - 1) :
              Analytics.salesTrend[k + 1].date = Analytics.salesTrend[k].date + 1
        /\ \A k \in 1 .. Len(Analytics.salesTrend) :
              /\ Analytics.salesTrend[k].sales =
                    SumFn([id \in StoredDaySaleIds(TrendDay(k)) |->
                              ParseFloat(sales[id].totalAmount)])
              /\ Analytics.salesTrend[k].profit =
                    SumFn([id \in StoredDaySaleIds(TrendDay(k)) |->
                              ResolvableProfit(id)])

\* the same, with each entry counting only the sales of its day that are in
\* the window
C18_TrendCountsWindowSales ==
    (AnalyticsRead /\ Window >= 1) =>
        /\ Len(Analytics.salesTrend) = 7
        /\ \A k \in 1 .. (Len(Analytics.salesTrend) - 1) :
              Analytics.salesTrend[k + 1].date = Analytics.salesTrend[k].date + 1
        /\ \A k \in 1 .. Len(Analytics.salesTrend) :
              /\ Analytics.salesTrend[k].sales =
                    SumFn([id \in DaySaleIds(TrendDay(k)) |->
                              ParseFloat(sales[id].totalAmount)])
              /\ Analytics.salesTrend[k].profit =
                    SumFn([id \in DaySaleIds(TrendDay(k)) |-> ResolvableProfit(id)])

\* the trend was read over a window of seven days or more, with a sale made
\* on the oldest trend day and one made today
C18_WitnessWholeWeek ==
    /\ AnalyticsRead
    /\ Window >= 7
    /\ StoredDaySaleIds(TrendDay(1)) # {}
    /\ StoredDaySaleIds(TrendDay(7)) # {}

\* now - days, with 30 days when the call names no window
Cutoff ==
    clock - (IF last.arg = NoArg THEN 30 ELSE last.arg.days) * TicksPerDay
AggregatedIds == {id \in DOMAIN sales : sales[id].createdAt >= Cutoff}

\* C19: getSalesAnalytics(days) aggregates exactly the sales with
\* createdAt >= now - days, 30 days when no window is given: totalSales is
\* the sum of their totalAmount, averageOrderValue is totalSales divided by
\* their number, and a sale older than the cutoff adds to no aggregate.
C19_WindowIsCreatedAtFromCutoff ==
    AnalyticsRead =>
        LET older == DOMAIN sales \ AggregatedIds
            soldInWindow ==
                UNION {{sales[id].items[i].productId :
                           i \in 1 .. Len(sales[id].items)} : id \in AggregatedIds}
                \cap DOMAIN products
        IN /\ Analytics.totalSales =
                 SumFn([id \in AggregatedIds |-> ParseFloat(sales[id].totalAmount)])
           /\ Analytics.averageOrderValue =
                 (IF AggregatedIds = {} THEN Div(0, 1)
                  ELSE Div(Analytics.totalSales, Cardinality(AggregatedIds)))
           /\ Analytics.totalProfit =
                 SumFn([id \in AggregatedIds |-> ResolvableProfit(id)])
           /\ SumFn(Analytics.salesByCategory) =
                 SumFn([id \in AggregatedIds |-> ResolvableTotal(id)])
           /\ DOMAIN Analytics.salesByCategory =
                 {products[p].category : p \in soldInWindow}
           /\ \A k \in 1 .. Len(Analytics.topSellingProducts) :
                 Analytics.topSellingProducts[k].product.id \in soldInWindow
           /\ \A k \in 1 .. Len(Analytics.salesTrend) :
                 Analytics.salesTrend[k].sales =
                     SumFn([id \in StoredDaySaleIds(TrendDay(k)) \ older |->
                               ParseFloat(sales[id].totalAmount)])

\* the analytics were read with no window given, over a sale made more
\* than 30 days before and a later one
C19_Witness ==
    /\ AnalyticsRead
    /\ last.arg = NoArg
    /\ AggregatedIds # {}
    /\ \E id \in DOMAIN sales : sales[id].createdAt < clock - 30 * TicksPerDay

\* the entity type a handler's storage call is about, and the handlers by
\* method
HandledTypes == {"ingredient", "product"}
GetOp(t) == IF t = "ingredient" THEN "getIngredient" ELSE "getProduct"
RejectedRoutes ==
    {"POST /api/ingredients", "PUT /api/ingredients/:id",
     "POST /api/products", "PUT /api/products/:id"}

\* the body of the last request passes the schema of its route
BodyPasses ==
    CASE last.op \in {"createIngredient", "POST /api/ingredients"} ->
            /\ "costPerUnit" \in DOMAIN last.arg
            /\ last.arg.costPerUnit # NotAString
      [] last.op \in {"updateIngredient", "PUT /api/ingredients/:id"} ->
            "costPerUnit" \in DOMAIN last.arg => last.arg.costPerUnit # NotAString
      [] last.op \in {"createProduct", "POST /api/products"} ->
            /\ "price" \in DOMAIN last.arg /\ last.arg.price > 0
            /\ "cost" \in DOMAIN last.arg /\ last.arg.cost > 0
            /\ "stock" \in DOMAIN last.arg => last.arg.stock >= 0
      [] last.op \in {"updateProduct", "PUT /api/products/:id"} ->
            /\ "price" \in DOMAIN last.arg => last.arg.price > 0
            /\ "cost" \in DOMAIN last.arg => last.arg.cost > 0
            /\ "stock" \in DOMAIN last.arg => last.arg.stock >= 0
      [] OTHER -> TRUE

HistoryRowsKept ==
    /\ Len(Pre.costHistory) <= Len(costHistory)
    /\ SubSeq(costHistory, 1, Len(Pre.costHistory)) = Pre.costHistory

\* the last call was deleteProduct of a stored product that has history rows
DeleteWithHistory ==
    /\ last.op = "deleteProduct"
    /\ last.id \in DOMAIN Pre.products
    /\ \E i \in 1 .. Len(Pre.costHistory) : Pre.costHistory[i].productId = last.id

\* C21: the cost history is append-only: no call edits or removes a row,
\* and deleteProduct of a product that has history rows succeeds (returns
\* true), removes the product and leaves its rows in place, dangling.
C21_HistoryAppendOnly ==
    /\ HistoryRowsKept
    /\ DeleteWithHistory =>
          /\ last.ret = "true"
          /\ last.id \notin DOMAIN products
          /\ costHistory = Pre.costHistory

\* the append-only part alone
C21_HistoryRowsAreKept == HistoryRowsKept

\* the whole statement, for the in-memory store alone
C21_MemHistoryAppendOnly == variant = "mem" => C21_HistoryAppendOnly

\* the calls that change the catalogue
ProductCalls == {"createProduct", "updateProduct", "deleteProduct"}

\* C22: the items of a sale are a snapshot taken when the sale is made:
\* createProduct, updateProduct and deleteProduct change no stored sale, so
\* getSaleWithDetails shows each item with the quantity, price and total
\* recorded in the sale, whatever the product's price is now, and the
\* revenue of the analytics is the recorded totals.
C22_SaleItemsAreSnapshot ==
    /\ last.op \in ProductCalls => sales = Pre.sales
    /\ (last.op = "getSaleWithDetails" /\ last.id \in DOMAIN sales) =>
          LET details == last.out.val.itemDetails
              recorded == ResolvableItems(last.id)
          IN /\ Len(details) = Len(recorded)
             /\ \A k \in 1 .. Len(details) :
                   /\ details[k].product.id = recorded[k].productId
                   /\ details[k].quantity = recorded[k].quantity
                   /\ details[k].price = recorded[k].price
                   /\ details[k].total = recorded[k].total
    /\ AnalyticsRead =>
          /\ Analytics.totalSales =
                SumFn([id \in WindowSaleIds |-> ParseFloat(sales[id].totalAmount)])
          /\ \A k \in 1 .. Len(Analytics.topSellingProducts) :
                Analytics.topSellingProducts[k].revenue =
                    TotalOf(Analytics.topSellingProducts[k].product.id)

\* a sale was read after the price of a product it sold had changed: the
\* detail shows the recorded price, which is not the product's price now
C22_Witness ==
    /\ last.op = "getSaleWithDetails"
    /\ last.id \in DOMAIN sales
    /\ \E k \in 1 .. Len(last.out.val.itemDetails) :
          LET detail == last.out.val.itemDetails[k]
          IN /\ detail.price # ParseFloat(detail.product.price)
             /\ detail.quantity > 1

\* the last request was a recipe create or update whose body names servings
\* below 1
ServingsBelowOne ==
    /\ last.op \in {"createRecipe", "updateRecipe",
                    "POST /api/recipes", "PUT /api/recipes/:id"}
    /\ "servings" \in DOMAIN last.arg
    /\ last.arg.servings < 1

\* C23: a recipe create or update whose servings is less than 1 is rejected
\* with 400 before it reaches the store, so every stored recipe has
\* servings >= 1 and the costPerServing of a recipe read, totalCost divided
\* by servings, is a finite number.
C23_ServingsAtLeastOne ==
    /\ ServingsBelowOne => (last.ret = "ZodError" /\ recipes = Pre.recipes)
    /\ \A id \in DOMAIN recipes : recipes[id].servings >= 1
    /\ (last.op = "getRecipeWithDetails" /\ last.ret = "record") =>
          last.out.val.costPerServing.den # 0

\* what does hold: a body that fails the schema (servings left out on
\* create, an ingredient line with quantity 0) is turned away and changes
\* nothing
C23_InvalidBodyRejected ==
    (last.op \in {"POST /api/recipes", "PUT /api/recipes/:id"}) =>
        /\ last.ret = "ZodError"
        /\ Snapshot = Pre

\* the products the point of sale starts with
InitialProducts ==
    IF variant = "mem" THEN SeqToMap(MemSampleProducts) ELSE SeqToMap(DbSampleProducts)

\* what the createSale requests that arrived sell of product p
RequestedQuantity(p) ==
    SumFn([r \in {q \in Requests : inflight[q].op = "createSale"} |->
              QtySold(inflight[r].arg.items, p)])

\* C24: when createSale requests that sell the same product are in flight
\* together and interleave at their awaits, no decrement is lost: once all
\* have returned, the stock of each product is its initial stock less the
\* quantities sold of it.
C24_NoLostDecrement ==
    AllDone =>
        \A p \in DOMAIN products :
            products[p].stock = InitialProducts[p].stock - RequestedQuantity(p)

\* the same, for the in-memory store alone
C24_MemNoLostDecrement == variant = "mem" => C24_NoLostDecrement

\* in the in-memory store two requests that sold the same product returned
C24_MemWitness ==
    /\ variant = "mem"
    /\ Len(inflight) = 2
    /\ AllDone
    /\ \E p \in DOMAIN products :
          \A r \in Requests : QtySold(inflight[r].arg.items, p) > 0

\* the requests of call `op` that returned
ReturnedRequests(op) ==
    {r \in Requests : inflight[r].op = op /\ inflight[r].pc = "done"}

\* the updateProduct requests that appended a cost-history row
HistoryRequests == {r \in Requests : inflight[r].op = "updateProduct" /\ inflight[r].i > 0}

\* C25: in the in-memory stores, however concurrent creates and the awaits
\* of other requests interleave, the ids handed out stay unique and no
\* create overwrites the entity of another: two returned creates of one
\* kind have different ids, each one's entity is stored under its id as it
\* was created, the cost-history rows have different ids and each is the
\* row of the update that appended it.
C25_ConcurrentCreatesKeepIds ==
    variant \in {"recipe", "mem"} =>
        /\ \A op \in {"createIngredient", "createProduct", "createSale"} :
              \A r1, r2 \in ReturnedRequests(op) :
                  r1 # r2 => inflight[r1].id # inflight[r2].id
        /\ \A r \in ReturnedRequests("createIngredient") :
              LET req == inflight[r]
              IN /\ req.id \in DOMAIN ingredients
                 /\ ingredients[req.id] =
                       [id |-> req.id, costPerUnit |-> req.arg.costPerUnit]
        /\ \A r \in ReturnedRequests("createProduct") :
              LET req == inflight[r]
              IN /\ req.id \in DOMAIN products
                 /\ products[req.id].id = req.id
                 /\ products[req.id].cost = NumToString(req.arg.cost)
        /\ \A r \in ReturnedRequests("createSale") :
              LET req == inflight[r]
              IN /\ req.id \in DOMAIN sales
                 /\ sales[req.id] = MemSaleRecord(req.id, req.arg, sales[req.id].createdAt)
        /\ \A i, j \in 1 .. Len(costHistory) :
              i # j => costHistory[i].id # costHistory[j].id
        /\ \A r \in HistoryRequests :
              LET req == inflight[r]
              IN /\ costHistory[req.i].productId = req.id
                 /\ costHistory[req.i].newCost = NumToString(req.arg.cost)

\* in the in-memory store two createSale requests with different bodies
\* arrived and returned while an updateProduct request stood at its await,
\* its history row appended
C25_Witness ==
    /\ variant = "mem"
    /\ \E u \in HistoryRequests : inflight[u].pc = "set" /\ u = 1
    /\ \E r1, r2 \in ReturnedRequests("createSale") : inflight[r1].arg # inflight[r2].arg

\* the last completed call is an updateProduct request that returned a
\* product; Pre is the store as it was just before the call's write
UpdateWrote ==
    /\ last.op = "updateProduct"
    /\ last.ret = "record"
    /\ "updated" \in DOMAIN last.out

\* the fields of a product
ProductFields == {"id", "category", "price", "cost", "stock", "minStock"}

\* the history row of the returned update names as oldCost the cost stored
\* just before the update's write
OldCostIsCostBeforeWrite ==
    (UpdateWrote /\ last.out.row.some) =>
        ParseFloat(last.out.row.val.oldCost) = ParseFloat(Pre.products[last.id].cost)

\* the returned update left every field outside its patch as it was stored
\* just before its write
UnpatchedFieldsKept ==
    UpdateWrote =>
        \A f \in ProductFields \ DOMAIN last.arg :
            last.out.updated.val[f] = Pre.products[last.id][f]

\* a cost that a request changed has its history row: the row is appended
\* before the product is written
RowBeforeCostChange ==
    UpdateWrote =>
        (ParseFloat(last.out.updated.val.cost) # ParseFloat(Pre.products[last.id].cost)
            => /\ last.out.row.some
               /\ \E i \in 1 .. Len(Pre.costHistory) :
                     Pre.costHistory[i] = last.out.row.val)

\* C26: updateProduct's read of the existing product, its append of the
\* history row and its write of the merged product behave as one atomic
\* step towards other requests: with updateProduct calls on one product in
\* flight together, each history row's oldCost is the cost stored just
\* before that call's own write, the row is in place before the cost
\* changes, and no field patched by one call is written back with a stale
\* value by the other.
C26_UpdateProductAtomic ==
    /\ OldCostIsCostBeforeWrite
    /\ RowBeforeCostChange
    /\ UnpatchedFieldsKept

\* what does hold in the in-memory store: the row is in place before the
\* cost changes
C26_MemRowBeforeCostChange == variant = "mem" => RowBeforeCostChange

\* what does hold in the relational store: the UPDATE writes the patched
\* columns only, so the other fields keep what is stored
C26_DbUnpatchedFieldsKept == variant = "db" => UnpatchedFieldsKept

\* both servers answered the last call: the store variables hold the
\* relational server's tables, twin.store the in-memory server's
Compared == twin.phase = "compared"

\* two decimal texts name one number
SameNumber(a, b) == ParseFloat(a) = ParseFloat(b)

SameProduct(p, q) ==
    /\ p.id = q.id
    /\ p.category = q.category
    /\ p.stock = q.stock
    /\ p.minStock = q.minStock
    /\ SameNumber(p.price, q.price)
    /\ SameNumber(p.cost, q.cost)

\* two stored sales agree in all but the tax amount
SameSaleButTax(a, b) ==
    /\ a.id = b.id
    /\ a.items = b.items
    /\ a.createdAt = b.createdAt
    /\ SameNumber(a.totalAmount, b.totalAmount)

SameSale(a, b) == SameSaleButTax(a, b) /\ SameNumber(a.taxAmount, b.taxAmount)

SameHistoryRow(a, b) ==
    /\ a.id = b.id
    /\ a.productId = b.productId
    /\ a.reason = b.reason
    /\ SameNumber(a.oldCost, b.oldCost)
    /\ SameNumber(a.newCost, b.newCost)

SameResults == last.ret = twin.call.ret /\ last.id = twin.call.id

SameProducts ==
    /\ DOMAIN products = DOMAIN twin.store.products
    /\ \A id \in DOMAIN products : SameProduct(products[id], twin.store.products[id])

SameSales ==
    /\ DOMAIN sales = DOMAIN twin.store.sales
    /\ \A id \in DOMAIN sales : SameSale(sales[id], twin.store.sales[id])

SameSalesButTax ==
    /\ DOMAIN sales = DOMAIN twin.store.sales
    /\ \A id \in DOMAIN sales : SameSaleButTax(sales[id], twin.store.sales[id])

SameHistory ==
    /\ Len(costHistory) = Len(twin.store.costHistory)
    /\ \A i \in 1 .. Len(costHistory) :
          SameHistoryRow(costHistory[i], twin.store.costHistory[i])

\* C27: MemStorage and DatabaseStorage implement one contract: from the
\* same products, the same sequence of product and sale calls with the same
\* inputs, made one at a time, gives the same results, the same products
\* (stock and cost among them), the same stored sales (taxAmount too, after
\* an update that sets it to 0) and the same cost-history rows, numbers
\* compared by value.
C27_StoresAgree ==
    Compared => (SameResults /\ SameProducts /\ SameSales /\ SameHistory)

\* what does hold: the stored sales agree in everything but the tax amount
C27_SalesAgreeButTax == Compared => SameSalesButTax

\* the cost-history rows of product p, in append order
RowsOf(p) == SelectSeq(costHistory, LAMBDA h : h.productId = p)
RowsBefore(p) == SelectSeq(Pre.costHistory, LAMBDA h : h.productId = p)

\* the products that have or had a history row or a stored record
ChainProducts ==
    DOMAIN products \cup DOMAIN Pre.products
        \cup {costHistory[i].productId : i \in 1 .. Len(costHistory)}

\* C28: with requests run one at a time, the cost history of each product
\* is a chain: in append order each row's oldCost is the previous row's
\* newCost; the first row's oldCost is the cost the product was created
\* with (a product without rows still has that cost: no call changes the
\* cost of a product and leaves it without a row); and while the product
\* exists the last row's newCost is its stored cost.
C28_CostHistoryIsChain ==
    IsPos =>
      \A p \in ChainProducts :
        LET rows == RowsOf(p)
        IN /\ \A k \in 2 .. Len(rows) :
                 SameNumber(rows[k].oldCost, rows[k - 1].newCost)
           /\ (p \in DOMAIN products /\ Len(rows) > 0) =>
                 SameNumber(rows[Len(rows)].newCost, products[p].cost)
           /\ (p \in DOMAIN InitialProducts /\ Len(rows) > 0) =>
                 SameNumber(rows[1].oldCost, InitialProducts[p].cost)
           /\ (p \in DOMAIN InitialProducts /\ p \in DOMAIN products /\ Len(rows) = 0) =>
                 SameNumber(products[p].cost, InitialProducts[p].cost)
           /\ (last.op = "createProduct" /\ last.id = p) =>
                 /\ Len(rows) = 0
                 /\ ParseFloat(products[p].cost) = last.arg.cost
           /\ (p \in DOMAIN Pre.products /\ p \in DOMAIN products /\ Len(rows) = 0) =>
                 SameNumber(products[p].cost, Pre.products[p].cost)
           /\ (p \in DOMAIN Pre.products /\ Len(RowsBefore(p)) = 0 /\ Len(rows) > 0) =>
                 SameNumber(rows[1].oldCost, Pre.products[p].cost)

\* a stored product has two history rows that changed its cost and came
\* back to the cost it started with
C28_Witness ==
    \E p \in DOMAIN products :
        /\ Len(RowsOf(p)) = 2
        /\ ~SameNumber(RowsOf(p)[1].oldCost, RowsOf(p)[1].newCost)
        /\ ~SameNumber(RowsOf(p)[2].oldCost, RowsOf(p)[2].newCost)

\* the sales and the category totals the seven trend entries add up to
TrendTotal ==
    SumFn([k \in 1 .. Len(Analytics.salesTrend) |-> Analytics.salesTrend[k].sales])
CategoryTotal == SumFn(Analytics.salesByCategory)

\* the total amount of a set of stored sales
AmountOf(ids) == SumFn([id \in ids |-> ParseFloat(sales[id].totalAmount)])

\* C29: in every getSalesAnalytics result each sale of the window is
\* counted in at most one of the seven trend entries and no sale outside
\* the window in any: the trend's sales add up to the amount of a set of
\* sales of the window, so to no more than totalSales; and the values of
\* salesByCategory add up to the item totals of the window's items whose
\* product exists.
C29_TrendAndCategorySums ==
    AnalyticsRead =>
        /\ Len(Analytics.salesTrend) = 7
        /\ \E counted \in SUBSET WindowSaleIds : TrendTotal = AmountOf(counted)
        /\ TrendTotal <= Analytics.totalSales
        /\ CategoryTotal = SumFn([id \in WindowSaleIds |-> ResolvableTotal(id)])

\* what does hold: the same, for a server whose zone keeps one offset
C29_FixedOffsetSums == dst.shift = 0 => C29_TrendAndCategorySums

\* what does hold where the clocks change: the category totals
C29_CategorySums ==
    AnalyticsRead =>
        CategoryTotal = SumFn([id \in WindowSaleIds |-> ResolvableTotal(id)])

\* the last event of the POS page, and the cart as it was before it
PageEvents == {"addToCart", "updateQuantity", "removeFromCart", "handleCheckout",
               "onError"}
CartBefore == last.arg.cart

\* at most one line per product, every quantity at least 1
CartShape ==
    /\ \A j, k \in 1 .. Len(cart) : cart[j].product.id = cart[k].product.id => j = k
    /\ \A k \in 1 .. Len(cart) : cart[k].quantity >= 1

\* every line's total is its quantity times the price of its product
LineTotals ==
    \A k \in 1 .. Len(cart) :
        cart[k].total = cart[k].quantity * ParseFloat(cart[k].product.price)

\* updateQuantity to a value of 0 or less removes the line
ZeroRemovesLine ==
    (last.op = "updateQuantity" /\ last.out.newQuantity <= 0) =>
        /\ LineOf(cart, last.id) = 0
        /\ cart = Removed(CartBefore, last.id)

\* checkout with an empty cart sends no sale; checkout itself and a failed
\* request leave the cart as it was; the answer to a stored sale empties it
CheckoutKeepsCart ==
    /\ (last.op = "handleCheckout" /\ CartBefore = <<>>) =>
          (last.ret = "toast" /\ submitted.status # "pending")
    /\ last.op \in {"handleCheckout", "onError"} => cart = CartBefore
    /\ (last.op \in PageEvents /\ CartBefore # <<>> /\ cart = <<>>) =>
          (last.op \in {"updateQuantity", "removeFromCart"} /\ Len(CartBefore) = 1)
    /\ submitted.status = "pending" => submitted.data.items # <<>>

\* C30: after any sequence of addToCart, updateQuantity, removeFromCart and
\* checkout events of the POS page the cart has at most one line per
\* product, every line has quantity >= 1 and total = quantity times the
\* price of its product (updateQuantity to a value <= 0 removes the line);
\* checkout with an empty cart sends no sale, and the cart is emptied only
\* when a sale request succeeded and is kept as it is when one fails.
C30_CartInvariant ==
    IsPos => (CartShape /\ LineTotals /\ ZeroRemovesLine /\ CheckoutKeepsCart)

\* what does hold: everything but the totals
C30_CartShapeAndCheckout ==
    IsPos => (CartShape /\ ZeroRemovesLine /\ CheckoutKeepsCart)

\* what does hold: the totals, as long as every line holds the product as
\* the page shows it
C30_TotalsWhileCurrent ==
    (\A k \in 1 .. Len(cart) :
        cart[k].product.id \in DOMAIN catalogue
            /\ cart[k].product = catalogue[cart[k].product.id])
      => LineTotals

====
